---- MODULE Spec2Model ----
(***************************************************************************)
(* A model of librbd's image lifecycle and coordination engine             *)
(* (src/librbd/internal.cc): clone / remove / snapshot protection, the     *)
(* exclusive-lock API, pool mirror mode and image copy.                    *)
(*                                                                         *)
(* Return codes are modelled by name: "OK" stands for 0 and every other    *)
(* string for the negative errno of that name, so the code's `r < 0` is    *)
(* IsErr(r).                                                               *)
(***************************************************************************)
EXTENDS Integers, Sequences, FiniteSets, TLC

\* ------------------------------------------------------------------ bounds
\* Number of store operations that may fail during one behaviour.
MaxFaults == 2

\* Number of pool uuids written after which no mirror_mode_set is called.
MaxUuids == 2

\* Width of the unsigned integers of clip_io, in bits.
WordBits == 4

\* Largest image size copied, the stripe period (both in the unit of the
\* offsets) and the number of chunk operations copy() keeps in flight.
MaxSize == 5

StripePeriod == 2

concurrent_management_ops == 2

\* ------------------------------------------------------------- basic sets
OK == "OK"
IsErr(r) == r # OK

\* Clients of the clone engine; client c clones the parent snapshot to a
\* child image named after c, whose generated id is also c.
Clients == {"c1", "c2"}

\* Pools of the cluster. The parent image lives in the first one.
Pools == {"p1", "p2"}

\* Feature bits. "unsupported" stands for any bit outside RBD_FEATURES_ALL.
RBD_FEATURE_LAYERING == "layering"
RBD_FEATURE_JOURNALING == "journaling"
RBD_FEATURES_ALL == {RBD_FEATURE_LAYERING, RBD_FEATURE_JOURNALING}
FeatureBits == RBD_FEATURES_ALL \cup {"unsupported"}

\* Errors a store operation can fail with when it fails for a reason of the
\* store itself (transport, OSD).
TransportErrors == {"ETIMEDOUT"}

\* ---------------------------------------------------------------- state
VARIABLES
  \* --- object store: parent image and its snapshot P
  prot,          \* protection status of P: unprotected/unprotecting/protected
  snapExists,    \* P exists
  parent,        \* static properties of the parent image
  \* --- object store: child images and the child index
  children,      \* rbd_children of each pool: ids registered under P's spec
  img,           \* per child name: which objects exist and what they hold
  watchers,      \* per child name: watchers on the header object
  mirror_mode,   \* mirror mode of the child pools
  faults,        \* store operations that may still fail
  \* --- callers
  cl,            \* per client: position and locals of its current call
  un,            \* the unprotect request: position and locals
  sr,            \* the snap_remove call: position and locals
  \* --- exclusive lock of one image
  exclusive_lock,           \* the image has the exclusive-lock feature
  blacklist_on_break_lock,  \* configuration of the handles
  locker,        \* the locker recorded on the header object, or "none"
  blacklist,     \* blacklisted client addresses
  lk,            \* per handle: cached lock state and current call
  \* --- mirroring of one pool
  mimg,          \* per image: journaling, mirror record state, parent
  peers,         \* the pool has registered peers
  ms,            \* the mirror_mode_set call: position and locals
  mi,            \* the mirror_image_enable/disable call: position, locals
  mirror_uuid,   \* UUIDs written for the pool so far; the last is current
  \* --- journal of one mirrored image
  jr,            \* tag owner and resync flag kept in the journal
  jc,            \* the promote/demote/resync call: position and locals
  \* --- create and get_size
  gs,            \* the create or get_size call: arguments and result
  \* --- pools of the cluster
  pool_tier,     \* per pool: its own base tier, a cache tier, or gone
  \* --- image I/O
  io,            \* the clip_io call: arguments, handle state and result
  \* --- copy
  src,           \* source image: size, zero chunks; size of the destination
  cp             \* the copy call: position, throttle, chunks in flight

cloneVars == <<prot, snapExists, parent, children, img, watchers,
               mirror_mode, faults, cl, un>>

lockVars == <<exclusive_lock, blacklist_on_break_lock, locker, blacklist, lk>>

mirrorVars == <<mimg, peers, ms>>

copyVars == <<src, cp>>

snapVars == <<sr>>

imageVars == <<mi>>

journalVars == <<jr, jc>>

sizeVars == <<gs>>

poolVars == <<pool_tier>>

ioVars == <<io>>

vars == <<cloneVars, lockVars, mirrorVars, copyVars, snapVars, imageVars,
          journalVars, mirror_uuid, sizeVars, poolVars, ioVars>>

\* What the actions of each part leave alone.
cloneOnly == <<prot, snapExists, parent, children, img, watchers, cl, un>>

notSize == <<lockVars, mirrorVars, copyVars, imageVars, journalVars,
             mirror_uuid, snapVars, poolVars, ioVars>>

notSnap == <<lockVars, mirrorVars, copyVars, imageVars, journalVars,
             mirror_uuid, sizeVars, poolVars, ioVars>>

notClone == <<notSnap, snapVars>>

notLock == <<cloneOnly, mirror_mode, mirrorVars, copyVars, snapVars,
             imageVars, journalVars, mirror_uuid, sizeVars, poolVars, ioVars>>

notUuid == <<cloneOnly, lockVars, copyVars, snapVars, journalVars, sizeVars,
             poolVars, ioVars>>

notImage == <<notUuid, mirror_uuid>>

notMirror == <<notImage, imageVars>>

notCopy == <<cloneOnly, mirror_mode, lockVars, mirrorVars, snapVars,
             imageVars, journalVars, mirror_uuid, sizeVars, poolVars, ioVars>>

notJournal == <<cloneOnly, mirror_mode, mirrorVars, copyVars, snapVars,
                imageVars, mirror_uuid, exclusive_lock,
                blacklist_on_break_lock, blacklist, sizeVars, poolVars, ioVars>>

notPool == <<cloneVars, lockVars, mirrorVars, copyVars, snapVars, imageVars,
             journalVars, mirror_uuid, sizeVars, ioVars>>

notIo == <<cloneVars, lockVars, mirrorVars, copyVars, snapVars, imageVars,
           journalVars, mirror_uuid, sizeVars, poolVars>>

\* -------------------------------------------------------- store contract
\* Outcomes of one store operation: success, or, while the fault budget
\* lasts, a transport error.
StoreResults == IF faults > 0 THEN {OK} \cup TransportErrors ELSE {OK}

Charge(res) == IF IsErr(res) THEN faults - 1 ELSE faults

NoImage == [dir |-> FALSE, idobj |-> FALSE, hdr |-> FALSE, parent |-> FALSE,
            features |-> {}, meta |-> FALSE, mirror |-> FALSE, pool |-> "p1",
            size |-> 0, snaps |-> FALSE, deep_flatten |-> FALSE,
            data |-> FALSE, group |-> FALSE, excl |-> FALSE,
            locked |-> FALSE]

\* An image name is taken when its id object exists (detect_format stats
\* the old-format header, then the id object).
detect_format(name) == IF img[name].idobj THEN OK ELSE "ENOENT"

\* ----------------------------------------------------------- clone args
NoArgs == [snap |-> FALSE, format |-> 0, featOpt |-> FALSE, feat |-> {},
           nonPrimary |-> FALSE, pool |-> "p1"]

\* format 0 stands for "RBD_IMAGE_OPTION_FORMAT not set".
CloneArgs == [snap : BOOLEAN, format : {0, 1, 2}, featOpt : BOOLEAN,
              feat : SUBSET FeatureBits, nonPrimary : BOOLEAN, pool : Pools]

IdleClient == [pc |-> "idle", op |-> "none", r |-> OK, partial_r |-> OK,
               args |-> NoArgs, snap_protected |-> FALSE, snap_r |-> OK,
               features |-> {}, reached |-> 0, failedStep |-> 0,
               firstErr |-> OK, rm_r |-> "NONE", id |-> FALSE,
               inClone |-> FALSE, fresh |-> FALSE, size |-> 0,
               failedOp |-> "none", comp |-> <<>>, unreg_r |-> "NONE",
               force |-> FALSE, img0 |-> NoImage, registered0 |-> FALSE]

IdleUnprotect == [pc |-> "idle", r |-> OK, found |-> FALSE, todo |-> {}]

\* ------------------------------------------------------- parent handle
\* ImageCtx::is_snap_protected on a handle's cached snapshot table: -ENOENT
\* when the snapshot is not in the table, else whether its status is
\* PROTECTED.
is_snap_protected_r(exists) == IF exists THEN OK ELSE "ENOENT"

is_snap_protected_val(exists, status) == exists /\ status = "protected"

\* ------------------------------------------------------- clone: checks
\* Lines 1081-1088: the format option defaults to 2.
clone_format(a) == IF a.format = 0 THEN 2 ELSE a.format

\* A child that always inherits the parent's features.
clone_features_inherited(a, p_features) == p_features

\* Lines 1094-1102 and 1164-1166: the child's feature set.
use_p_features(a) == ~a.featOpt

clone_features(a, p_features) ==
  IF use_p_features(a) THEN p_features ELSE a.feat

\* A child created empty whatever the size of the parent's snapshot.
clone_size_zero(p) == 0

\* Line 1129: the size of the child is the size of the parent's snapshot.
clone_size(p) == p.size

\* Lines 1072-1147: the checks made before the journal is consulted, in the
\* code's order. `exists` is detect_format's result for the child name.
clone_precheck(a, p, loc, exists) ==
  IF ~a.snap THEN "EINVAL"
  ELSE IF clone_format(a) < 2 THEN "EINVAL"
  ELSE IF a.featOpt /\ (a.feat \ RBD_FEATURES_ALL) # {} THEN "ENOSYS"
  ELSE IF exists # "ENOENT" THEN "EEXIST"
  ELSE IF p.old_format THEN "EINVAL"
  ELSE IF RBD_FEATURE_LAYERING \notin p.features THEN "ENOSYS"
  ELSE IF IsErr(loc.snap_r) THEN loc.snap_r
  ELSE IF ~loc.snap_protected THEN "EINVAL"
  ELSE OK

\* A check that lets a non-primary parent through.
clone_tag_check_lax(a, p, tag_r) ==
  IF RBD_FEATURE_JOURNALING \notin p.features THEN OK
  ELSE IF IsErr(tag_r) THEN tag_r
  ELSE OK

\* Lines 1149-1162: a journaled parent must be the tag owner unless the
\* caller passes a non-primary global image id.
clone_tag_check(a, p, tag_r) ==
  IF RBD_FEATURE_JOURNALING \notin p.features THEN OK
  ELSE IF IsErr(tag_r) THEN tag_r
  ELSE IF ~p.primary /\ ~a.nonPrimary THEN "EINVAL"
  ELSE OK

\* Lines 1173-1176: the child itself must have layering.
clone_layering_check(features) ==
  IF RBD_FEATURE_LAYERING \notin features THEN "ENOSYS" ELSE OK

\* A call returns r.
Return(loc, r) == [loc EXCEPT !.pc = "done", !.r = r]

\* Forward step `step` of clone (3 create, 4 open / set parent / register,
\* 5 re-validate, 6 metadata, 7 mirroring) fails with error e; clone's r
\* becomes r and control goes to `to`. reached, failedStep and firstErr
\* record how far the call got, which step failed and with what.
Fail(loc, step, e, r, to) ==
  [loc EXCEPT !.pc = to, !.r = r, !.reached = step, !.failedStep = step,
              !.firstErr = e, !.inClone = TRUE]

\* A failure that always unwinds from the top label.
err_label_from_top(op) == "err_remove_child"

\* The label a failed forward operation jumps to (lines 1191, 1197, 1203,
\* 1215, 1222, 1227, 1238, 1255); "rm_open" is err_remove, where remove()
\* is called.
err_label(op) ==
  IF op = "open" THEN "rm_open"
  ELSE IF op \in {"set_parent", "add_child"} THEN "err_close_child"
  ELSE "err_remove_child"

\* The forward operation `op` failed; failedOp records which.
FailedOp(loc, op) == [loc EXCEPT !.failedOp = op]

\* Compensating action `a` runs; comp records the actions in order.
Compensate(loc, a) == [loc EXCEPT !.comp = Append(@, a)]

\* Forward step `step` succeeded; control goes to `to`.
Pass(loc, step, to) == [loc EXCEPT !.pc = to, !.reached = step]

\* Nothing of an image of this name is in the store.
NoResidue(c) ==
  /\ ~img[c].hdr /\ ~img[c].idobj /\ ~img[c].dir
  /\ \A p \in Pools : c \notin children[p]

\* The caller holds the parent handle p_imctx (opened or last refreshed now)
\* and calls clone(p_imctx, c_ioctx, c_name, c_opts, non_primary_id, ...).
\* fresh records whether the child name was wholly unused at the call.
CloneBegin(c, a) ==
  /\ cl[c].pc = "idle"
  /\ cl' = [cl EXCEPT ![c] =
              [IdleClient EXCEPT !.pc = "validate", !.op = "clone",
                 !.args = a, !.fresh = NoResidue(c),
                 !.snap_r = is_snap_protected_r(snapExists),
                 !.snap_protected = is_snap_protected_val(snapExists, prot)]]
  /\ UNCHANGED notClone
  /\ UNCHANGED <<prot, snapExists, parent, children, img, watchers,
                 mirror_mode, faults, un>>

\* Lines 1071-1176.
CloneValidate(c) ==
  /\ cl[c].pc = "validate"
  /\ LET a == cl[c].args
         pre == clone_precheck(a, parent, cl[c], detect_format(c))
     IN \E tag_r \in (IF pre = OK /\ RBD_FEATURE_JOURNALING \in parent.features
                      THEN StoreResults ELSE {OK}) :
          LET r1 == IF IsErr(pre) THEN pre
                    ELSE clone_tag_check(a, parent, tag_r)
              features == clone_features(a, parent.features)
              r == IF IsErr(r1) THEN r1 ELSE clone_layering_check(features)
          IN /\ faults' = Charge(tag_r)
             /\ cl' = [cl EXCEPT ![c] =
                         IF IsErr(r) THEN Return(@, r)
                         ELSE [@ EXCEPT !.pc = "create",
                                        !.features = features,
                                        !.size = clone_size(parent)]]
  /\ UNCHANGED notClone
  /\ UNCHANGED <<prot, snapExists, parent, children, img, watchers,
                 mirror_mode, un>>

\* image::CreateRequest: creates the id object, the directory entry and the
\* header, or fails and leaves nothing; a name still in the directory is
\* refused.
create_request_r(name, res) ==
  IF res = OK /\ img[name].dir THEN "EEXIST" ELSE res

CreateRequest(name, size, features, pool) ==
  [img EXCEPT ![name] = [NoImage EXCEPT !.dir = TRUE, !.idobj = TRUE,
                                        !.hdr = TRUE, !.features = features,
                                        !.pool = pool, !.size = size]]

\* Lines 1178-1184 with create(), lines 952-1010.
CloneCreate(c) ==
  /\ cl[c].pc = "create"
  /\ \E res \in StoreResults :
       LET r == IF detect_format(c) # "ENOENT" THEN "EEXIST"
                ELSE create_request_r(c, res)
       IN /\ faults' = Charge(res)
          /\ img' = IF r = OK
                    THEN CreateRequest(c, cl[c].size, cl[c].features,
                                       cl[c].args.pool)
                    ELSE img
          /\ cl' = [cl EXCEPT ![c] =
                      IF IsErr(r)
                      THEN Return([@ EXCEPT !.reached = 3, !.failedStep = 3,
                                            !.firstErr = r], r)
                      ELSE Pass(@, 3, "open")]
  /\ UNCHANGED notClone
  /\ UNCHANGED <<prot, snapExists, parent, children, watchers, mirror_mode,
                 un>>

\* Lines 1186-1192: a failed open deletes the handle and goes to err_remove.
CloneOpen(c) ==
  /\ cl[c].pc = "open"
  /\ \E res \in StoreResults :
       /\ faults' = Charge(res)
       /\ watchers' = IF res = OK THEN [watchers EXCEPT ![c] = @ + 1]
                      ELSE watchers
       /\ cl' = [cl EXCEPT ![c] =
                   IF IsErr(res)
                   THEN Fail(FailedOp(@, "open"), 4, res, res,
                             err_label("open"))
                   ELSE Pass(@, 4, "set_parent")]
  /\ UNCHANGED notClone
  /\ UNCHANGED <<prot, snapExists, parent, children, img, mirror_mode, un>>

\* Lines 1194-1198.
CloneSetParent(c) ==
  /\ cl[c].pc = "set_parent"
  /\ \E res \in StoreResults :
       /\ faults' = Charge(res)
       /\ img' = IF res = OK THEN [img EXCEPT ![c].parent = TRUE] ELSE img
       /\ cl' = [cl EXCEPT ![c] =
                   IF IsErr(res)
                   THEN Fail(FailedOp(@, "set_parent"), 4, res, res,
                             err_label("set_parent"))
                   ELSE Pass(@, 4, "add_child")]
  /\ UNCHANGED notClone
  /\ UNCHANGED <<prot, snapExists, parent, children, watchers, mirror_mode,
                 un>>

\* A registration that never reaches the child index.
add_child_dropped(pool, id) == children

\* cls_client::add_child on the child pool's rbd_children object.
add_child(pool, id) == [children EXCEPT ![pool] = @ \cup {id}]

\* cls_client::remove_child: -ENOENT when the id is not registered.
remove_child_r(pool, id) == IF id \in children[pool] THEN OK ELSE "ENOENT"

\* A removal that rewrites the index without the other entries.
remove_child_rewrite(pool, id) == [children EXCEPT ![pool] = {}]

remove_child(pool, id) == [children EXCEPT ![pool] = @ \ {id}]

\* Lines 1200-1204.
CloneAddChild(c) ==
  /\ cl[c].pc = "add_child"
  /\ \E res \in StoreResults :
       /\ faults' = Charge(res)
       /\ children' = IF res = OK THEN add_child(cl[c].args.pool, c)
                      ELSE children
       /\ cl' = [cl EXCEPT ![c] =
                   IF IsErr(res)
                   THEN Fail(FailedOp(@, "add_child"), 4, res, res,
                             err_label("add_child"))
                   ELSE Pass(@, 4, "refresh")]
  /\ UNCHANGED notClone
  /\ UNCHANGED <<prot, snapExists, parent, img, watchers, mirror_mode, un>>

\* A re-validation that looks at the refresh result only.
lost_race_unchecked(r, snap_protected) == IsErr(r)

\* Line 1212: the clone lost the race with unprotect.
lost_race(r, snap_protected) == IsErr(r) \/ ~snap_protected

\* Lines 1206-1216: refresh the parent handle and read the protection
\* status again; any failure is reported as -EINVAL.
CloneRefresh(c) ==
  /\ cl[c].pc = "refresh"
  /\ \E res \in StoreResults :
       LET r == IF res = OK THEN is_snap_protected_r(snapExists) ELSE res
           snap_protected == IF res = OK
                             THEN is_snap_protected_val(snapExists, prot)
                             ELSE cl[c].snap_protected
       IN /\ faults' = Charge(res)
          /\ cl' = [cl EXCEPT ![c] =
                      IF lost_race(r, snap_protected)
                      THEN Fail([@ EXCEPT !.snap_protected = snap_protected,
                                          !.failedOp = "refresh"],
                                5, IF IsErr(r) THEN r ELSE "EINVAL",
                                "EINVAL", err_label("refresh"))
                      ELSE Pass([@ EXCEPT !.snap_protected = snap_protected],
                                5, "metadata")]
  /\ UNCHANGED notClone
  /\ UNCHANGED <<prot, snapExists, parent, children, img, watchers,
                 mirror_mode, un>>

\* Outcomes of cls_client::metadata_list: besides a transport error, -EIO
\* and -EOPNOTSUPP, which the callers tolerate.
MetadataListResults ==
  IF faults > 0 THEN {OK, "EIO", "EOPNOTSUPP"} \cup TransportErrors ELSE {OK}

\* Lines 1220 and 2068.
metadata_list_failed(r) == IsErr(r) /\ r # "EOPNOTSUPP" /\ r # "EIO"

\* Lines 1218-1229: copy the parent's metadata pairs to the child. `res` is
\* the result of metadata_list, or, when that succeeded with pairs to copy,
\* of metadata_set.
CloneMetadata(c) ==
  /\ cl[c].pc = "metadata"
  /\ \E res \in MetadataListResults :
       /\ faults' = Charge(res)
       /\ img' = IF res = OK /\ parent.meta
                 THEN [img EXCEPT ![c].meta = TRUE] ELSE img
       /\ cl' = [cl EXCEPT ![c] =
                   IF metadata_list_failed(res)
                   THEN Fail(FailedOp(@, "metadata"), 6, res, res,
                             err_label("metadata"))
                   ELSE Pass([@ EXCEPT !.r = res], 6, "mirror")]
  /\ UNCHANGED notClone
  /\ UNCHANGED <<prot, snapExists, parent, children, watchers, mirror_mode,
                 un>>

\* Lines 1242-1243.
clone_enables_mirroring(mode, a) == mode = "pool" \/ a.nonPrimary

\* Lines 1231-1258: enable mirroring of a journaled child. `res` is the
\* result of mirror_mode_get or, when that succeeded, of the EnableRequest.
CloneMirror(c) ==
  /\ cl[c].pc = "mirror"
  /\ IF RBD_FEATURE_JOURNALING \in cl[c].features
     THEN \E res \in StoreResults :
            /\ faults' = Charge(res)
            /\ img' = IF res = OK
                         /\ clone_enables_mirroring(mirror_mode, cl[c].args)
                      THEN [img EXCEPT ![c].mirror = TRUE] ELSE img
            /\ cl' = [cl EXCEPT ![c] =
                        IF IsErr(res)
                        THEN Fail(FailedOp(@, "mirror"), 7, res, res,
                                  err_label("mirror"))
                        ELSE Pass([@ EXCEPT !.r = res], 7, "close")]
     ELSE /\ cl' = [cl EXCEPT ![c] = Pass(@, 7, "close")]
          /\ UNCHANGED <<faults, img>>
  /\ UNCHANGED notClone
  /\ UNCHANGED <<prot, snapExists, parent, children, watchers, mirror_mode,
                 un>>

\* Lines 1260-1262: clone returns the result of closing the child handle.
CloneClose(c) ==
  /\ cl[c].pc = "close"
  /\ \E res \in StoreResults :
       /\ faults' = Charge(res)
       /\ watchers' = [watchers EXCEPT ![c] = @ - 1]
       /\ cl' = [cl EXCEPT ![c] = Return(@, res)]
  /\ UNCHANGED notClone
  /\ UNCHANGED <<prot, snapExists, parent, children, img, mirror_mode, un>>

\* ------------------------------------------------- clone: compensation
\* Lines 1264-1270: err_remove_child. A failure is logged only.
CloneErrRemoveChild(c) ==
  /\ cl[c].pc = "err_remove_child"
  /\ \E res \in StoreResults :
       LET partial_r == IF res = OK
                        THEN remove_child_r(cl[c].args.pool, c) ELSE res
       IN /\ faults' = Charge(res)
          /\ children' = IF res = OK THEN remove_child(cl[c].args.pool, c)
                         ELSE children
          /\ cl' = [cl EXCEPT ![c] =
                      Compensate([@ EXCEPT !.pc = "err_close_child",
                                           !.partial_r = partial_r],
                                 "remove_child")]
  /\ UNCHANGED notClone
  /\ UNCHANGED <<prot, snapExists, parent, img, watchers, mirror_mode, un>>

\* Lines 1271-1272: err_close_child; then err_remove calls remove().
CloneErrCloseChild(c) ==
  /\ cl[c].pc = "err_close_child"
  /\ watchers' = [watchers EXCEPT ![c] = @ - 1]
  /\ cl' = [cl EXCEPT ![c] = Compensate([@ EXCEPT !.pc = "rm_open"], "close")]
  /\ UNCHANGED notClone
  /\ UNCHANGED <<prot, snapExists, parent, children, img, mirror_mode,
                 faults, un>>

\* ---------------------------------------------------------------- remove
\* A compensation whose error replaces the error clone returns.
rm_return_masking(loc, rr) ==
  IF loc.inClone
  THEN [loc EXCEPT !.pc = "done", !.partial_r = rr, !.rm_r = rr,
                   !.r = IF IsErr(rr) THEN rr ELSE @]
  ELSE [loc EXCEPT !.pc = "done", !.r = rr, !.rm_r = rr]

\* remove() returns rr. Called from clone's err_remove (lines 1273-1279)
\* the result is only logged and clone returns its own r.
rm_return(loc, rr) ==
  IF loc.inClone
  THEN [loc EXCEPT !.pc = "done", !.partial_r = rr, !.rm_r = rr]
  ELSE [loc EXCEPT !.pc = "done", !.r = rr, !.rm_r = rr]

\* A caller removes the image named after client c.
RemoveBegin(c) ==
  /\ cl[c].pc = "done"
  /\ cl[c].op = "clone"
  /\ cl' = [cl EXCEPT ![c] = [IdleClient EXCEPT !.pc = "rm_open",
                                                !.op = "remove"]]
  /\ UNCHANGED notClone
  /\ UNCHANGED <<prot, snapExists, parent, children, img, watchers,
                 mirror_mode, faults, un>>

\* Lines 1611-1622: remove(io_ctx, image_name, "", prog_ctx, force) of the
\* image named after client c. img0 and registered0 record the image and
\* its registration as a child at the time of the call.
RemoveCall(c, force) ==
  /\ cl[c].pc = "idle"
  /\ cl' = [cl EXCEPT ![c] = [IdleClient EXCEPT
                                 !.pc = "rm_open", !.op = "remove",
                                 !.force = force, !.img0 = img[c],
                                 !.registered0 =
                                    c \in children[img[c].pool]]]
  /\ UNCHANGED notClone
  /\ UNCHANGED <<prot, snapExists, parent, children, img, watchers,
                 mirror_mode, faults, un>>

\* Lines 1623-1638: open the image by name. -ENOENT (no id object or no
\* header) leaves the format unknown and the id empty; for a name that is
\* not in the v1 directory tmap_rm (lines 1743-1754) then changes nothing.
RemoveOpen(c) ==
  /\ cl[c].pc = "rm_open"
  /\ \E res \in StoreResults :
       LET r == IF res = OK /\ ~(img[c].idobj /\ img[c].hdr) THEN "ENOENT"
                ELSE res
       IN /\ faults' = Charge(res)
          /\ watchers' = IF r = OK THEN [watchers EXCEPT ![c] = @ + 1]
                         ELSE watchers
          /\ cl' = [cl EXCEPT ![c] =
                      LET loc == IF @.inClone THEN Compensate(@, "remove")
                                 ELSE @
                      IN IF r = OK
                         THEN [loc EXCEPT !.pc = "rm_checks", !.id = TRUE]
                         ELSE IF r = "ENOENT"
                         THEN [loc EXCEPT !.pc = "rm_getid"]
                         ELSE rm_return(loc, r)]
  /\ UNCHANGED notClone
  /\ UNCHANGED <<prot, snapExists, parent, children, img, mirror_mode, un>>

\* Line 1684.
has_other_watchers(n) == n > 1

\* Lines 1641-1669: an image with the exclusive lock feature. With force
\* the lock is shut down; without, the handle must become the owner.
remove_lock_check(image, force, res) ==
  IF ~image.excl THEN OK
  ELSE IF force THEN res
  ELSE IF IsErr(res) \/ image.locked THEN "EBUSY"
  ELSE OK

\* A removal that does not look at the snapshots.
remove_snaps_check_skipped(image) == OK

\* Lines 1671-1676.
remove_snaps_check(image) == IF image.snaps THEN "ENOTEMPTY" ELSE OK

\* Lines 1678-1691.
remove_watchers_check(n, res) ==
  IF IsErr(res) THEN res ELSE IF has_other_watchers(n) THEN "EBUSY" ELSE OK

\* Lines 1693-1705: a store without groups (-EOPNOTSUPP) has none.
remove_group_check(image, res) ==
  IF IsErr(res) /\ res # "EOPNOTSUPP" THEN res
  ELSE IF res = OK /\ image.group THEN "EMLINK"
  ELSE OK

\* The store operations of the checks of remove().
RemoveCheckOps == {"lock", "list_watchers", "image_get_group"}

\* Lines 1639-1705: the first check that fails gives the result; `res` is
\* the result of the store operation `at`, the others succeed.
remove_checks(image, force, n, at, res) ==
  LET res_of(op) == IF at = op THEN res ELSE OK
      r1 == remove_lock_check(image, force, res_of("lock"))
      r2 == remove_snaps_check(image)
      r3 == remove_watchers_check(n, res_of("list_watchers"))
      r4 == remove_group_check(image, res_of("image_get_group"))
  IN IF IsErr(r1) THEN r1
     ELSE IF IsErr(r2) THEN r2
     ELSE IF IsErr(r3) THEN r3
     ELSE r4

\* Lines 1639-1705: the checks of remove(); a failure closes the handle and
\* returns.
RemoveChecks(c) ==
  /\ cl[c].pc = "rm_checks"
  /\ \E res \in StoreResults, at \in RemoveCheckOps :
       LET r == remove_checks(img[c], cl[c].force, watchers[c], at, res)
       IN /\ faults' = Charge(res)
          /\ watchers' = IF IsErr(r) THEN [watchers EXCEPT ![c] = @ - 1]
                         ELSE watchers
          /\ cl' = [cl EXCEPT ![c] =
                      IF IsErr(r) THEN rm_return(@, r)
                      ELSE [@ EXCEPT !.pc = "rm_trim"]]
  /\ UNCHANGED notClone
  /\ UNCHANGED <<prot, snapExists, parent, children, img, mirror_mode, un>>

\* Line 1707: trim_image(ictx, 0, prog_ctx) removes the data objects; it
\* returns nothing, and what it could not remove stays.
RemoveTrim(c) ==
  /\ cl[c].pc = "rm_trim"
  /\ \E res \in StoreResults :
       /\ faults' = Charge(res)
       /\ img' = IF res = OK THEN [img EXCEPT ![c].data = FALSE] ELSE img
       /\ cl' = [cl EXCEPT ![c].pc = "rm_remove_child"]
  /\ UNCHANGED notClone
  /\ UNCHANGED <<prot, snapExists, parent, children, watchers, mirror_mode,
                 un>>

\* Line 1714: an id that is not registered is no failure.
remove_child_failed(r) == IsErr(r) /\ r # "ENOENT"

\* Lines 1707-1719: deregister the image from its parent's child index;
\* -ENOENT (no parent, or not registered) is not an error.
RemoveRemoveChild(c) ==
  /\ cl[c].pc = "rm_remove_child"
  /\ \E res \in StoreResults :
       LET registered == img[c].parent /\ c \in children[img[c].pool]
           r == IF res = OK /\ ~registered THEN "ENOENT" ELSE res
       IN /\ faults' = Charge(res)
          /\ children' = IF r = OK THEN remove_child(img[c].pool, c)
                         ELSE children
          /\ watchers' = IF remove_child_failed(r)
                         THEN [watchers EXCEPT ![c] = @ - 1] ELSE watchers
          /\ cl' = [cl EXCEPT ![c] =
                      IF remove_child_failed(r)
                      THEN rm_return([@ EXCEPT !.unreg_r = r], r)
                      ELSE [@ EXCEPT !.pc = "rm_mirror", !.unreg_r = r]]
  /\ UNCHANGED notClone
  /\ UNCHANGED <<prot, snapExists, parent, img, mirror_mode, un>>

\* Lines 1721-1733: mirror_image_disable_internal(ictx, force, !force),
\* then the handle is closed.
RemoveMirror(c) ==
  /\ cl[c].pc = "rm_mirror"
  /\ \E res \in StoreResults :
       /\ faults' = Charge(res)
       /\ img' = IF res = OK THEN [img EXCEPT ![c].mirror = FALSE] ELSE img
       /\ watchers' = [watchers EXCEPT ![c] = @ - 1]
       /\ cl' = [cl EXCEPT ![c] =
                   IF IsErr(res) /\ res # "EOPNOTSUPP" THEN rm_return(@, res)
                   ELSE [@ EXCEPT !.pc = "rm_header"]]
  /\ UNCHANGED notClone
  /\ UNCHANGED <<prot, snapExists, parent, children, mirror_mode, un>>

\* A removal that leaves the header object behind.
remove_header_skipped(name) == img

\* io_ctx.remove(header_oid): the header and all it holds.
remove_header(name) ==
  [img EXCEPT ![name].hdr = FALSE, ![name].parent = FALSE,
              ![name].features = {}, ![name].meta = FALSE,
              ![name].size = 0, ![name].snaps = FALSE,
              ![name].deep_flatten = FALSE, ![name].group = FALSE,
              ![name].excl = FALSE, ![name].locked = FALSE]

\* Lines 1735-1740.
RemoveHeader(c) ==
  /\ cl[c].pc = "rm_header"
  /\ \E res \in StoreResults :
       /\ faults' = Charge(res)
       /\ img' = IF res = OK THEN remove_header(c) ELSE img
       /\ cl' = [cl EXCEPT ![c] =
                   IF IsErr(res) /\ res # "ENOENT" THEN rm_return(@, res)
                   ELSE [@ EXCEPT !.pc = "rm_aux"]]
  /\ UNCHANGED notClone
  /\ UNCHANGED <<prot, snapExists, parent, children, watchers, mirror_mode,
                 un>>

\* Lines 1756-1762: the id is looked up in the directory when the open did
\* not give it.
RemoveGetId(c) ==
  /\ cl[c].pc = "rm_getid"
  /\ \E res \in StoreResults :
       LET r == IF res = OK /\ ~img[c].dir THEN "ENOENT" ELSE res
       IN /\ faults' = Charge(res)
          /\ cl' = [cl EXCEPT ![c] =
                      IF IsErr(r) /\ r # "ENOENT" THEN rm_return(@, r)
                      ELSE [@ EXCEPT !.pc = "rm_aux", !.id = (r = OK)]]
  /\ UNCHANGED notClone
  /\ UNCHANGED <<prot, snapExists, parent, children, img, watchers,
                 mirror_mode, un>>

\* Lines 1772-1795: with a known id, remove the journal, the object map and
\* the image's mirror record. `res` is the result of the first that fails.
RemoveAux(c) ==
  /\ cl[c].pc = "rm_aux"
  /\ IF cl[c].id
     THEN \E res \in StoreResults :
            /\ faults' = Charge(res)
            /\ img' = IF res = OK THEN [img EXCEPT ![c].mirror = FALSE]
                      ELSE img
            /\ cl' = [cl EXCEPT ![c] =
                        IF IsErr(res) THEN rm_return(@, res)
                        ELSE [@ EXCEPT !.pc = "rm_idobj"]]
     ELSE /\ cl' = [cl EXCEPT ![c].pc = "rm_idobj"]
          /\ UNCHANGED <<faults, img>>
  /\ UNCHANGED notClone
  /\ UNCHANGED <<prot, snapExists, parent, children, watchers, mirror_mode,
                 un>>

\* Lines 1797-1803.
RemoveIdObj(c) ==
  /\ cl[c].pc = "rm_idobj"
  /\ \E res \in StoreResults :
       /\ faults' = Charge(res)
       /\ img' = IF res = OK THEN [img EXCEPT ![c].idobj = FALSE] ELSE img
       /\ cl' = [cl EXCEPT ![c] =
                   IF IsErr(res) /\ res # "ENOENT" THEN rm_return(@, res)
                   ELSE [@ EXCEPT !.pc = "rm_dirent"]]
  /\ UNCHANGED notClone
  /\ UNCHANGED <<prot, snapExists, parent, children, watchers, mirror_mode,
                 un>>

\* Lines 1805-1817: every error of dir_remove_image is returned, -ENOENT
\* included.
RemoveDirEntry(c) ==
  /\ cl[c].pc = "rm_dirent"
  /\ \E res \in StoreResults :
       LET r == IF res = OK /\ ~img[c].dir THEN "ENOENT" ELSE res
       IN /\ faults' = Charge(res)
          /\ img' = IF r = OK THEN [img EXCEPT ![c].dir = FALSE,
                                              ![c].pool = NoImage.pool]
                    ELSE img
          /\ cl' = [cl EXCEPT ![c] = rm_return(@, r)]
  /\ UNCHANGED notClone
  /\ UNCHANGED <<prot, snapExists, parent, children, watchers, mirror_mode,
                 un>>

\* The caller takes the result; the client is free for another call.
Forget(c) ==
  /\ cl[c].pc = "done"
  /\ cl[c].op = "remove" \/ IsErr(cl[c].r)
  /\ cl' = [cl EXCEPT ![c] = IdleClient]
  /\ UNCHANGED notClone
  /\ UNCHANGED <<prot, snapExists, parent, children, img, watchers,
                 mirror_mode, faults, un>>

\* ----------------------------------------------- snapshot protection
\* SnapshotUnprotectRequest: mark the snapshot UNPROTECTING, scan the child
\* index of every pool, then set UNPROTECTED, or PROTECTED again when a
\* child was found.
UnprotectBegin ==
  /\ un.pc = "idle"
  /\ IF snapExists /\ prot = "protected"
     THEN /\ prot' = "unprotecting"
          /\ un' = [IdleUnprotect EXCEPT !.pc = "scan", !.todo = Pools]
     ELSE /\ un' = [IdleUnprotect EXCEPT !.pc = "done", !.r = "EINVAL"]
          /\ UNCHANGED prot
  /\ UNCHANGED notClone
  /\ UNCHANGED <<snapExists, parent, children, img, watchers, mirror_mode,
                 faults, cl>>

UnprotectScan(p) ==
  /\ un.pc = "scan"
  /\ p \in un.todo
  /\ un' = [un EXCEPT !.todo = @ \ {p},
                      !.found = @ \/ children[p] # {}]
  /\ UNCHANGED notClone
  /\ UNCHANGED <<prot, snapExists, parent, children, img, watchers,
                 mirror_mode, faults, cl>>

UnprotectFinish ==
  /\ un.pc = "scan"
  /\ un.todo = {}
  /\ prot' = IF un.found THEN "protected" ELSE "unprotected"
  /\ un' = [un EXCEPT !.pc = "done",
                      !.r = IF un.found THEN "EBUSY" ELSE OK]
  /\ UNCHANGED notClone
  /\ UNCHANGED <<snapExists, parent, children, img, watchers, mirror_mode,
                 faults, cl>>

UnprotectForget ==
  /\ un.pc = "done"
  /\ un' = IdleUnprotect
  /\ UNCHANGED notClone
  /\ UNCHANGED <<prot, snapExists, parent, children, img, watchers,
                 mirror_mode, faults, cl>>

\* snap_protect: only a snapshot of an image with layering.
SnapProtect ==
  /\ snapExists
  /\ prot = "unprotected"
  /\ RBD_FEATURE_LAYERING \in parent.features
  /\ prot' = "protected"
  /\ UNCHANGED notClone
  /\ UNCHANGED <<snapExists, parent, children, img, watchers, mirror_mode,
                 faults, cl, un>>

\* Removal of the snapshot: only while it is unprotected.
SnapRemove ==
  /\ snapExists
  /\ prot = "unprotected"
  /\ snapExists' = FALSE
  /\ UNCHANGED notClone
  /\ UNCHANGED <<prot, parent, children, img, watchers, mirror_mode,
                 faults, cl, un>>

\* ------------------------------------------------------------ snap_remove
RBD_SNAP_REMOVE_UNPROTECT == "unprotect"
RBD_SNAP_REMOVE_FLATTEN == "flatten"
SnapRemoveFlags == SUBSET {RBD_SNAP_REMOVE_UNPROTECT, RBD_SNAP_REMOVE_FLATTEN}

\* Namespaces of a snapshot; only a user snapshot may be removed by name.
SnapNamespaces == {"user", "group"}

\* pools are the pools list_children_info has still to visit, image_info
\* its result (a function from the pools read to the ids found), todo the
\* pools and ids the children flatten_children has still to visit,
\* parent_md the parent specification cached in the handle of the child
\* being flattened; scanned and flattened record the pools whose index was
\* read and the children whose flatten succeeded.
\* unprotects counts the unprotect requests the call has issued; attempted
\* records that the call reached the removal request; reread that it read
\* the protection state a second time.
IdleSnapRemove == [pc |-> "idle", flags |-> {}, r |-> OK,
                   is_protected |-> FALSE, unprotects |-> 0,
                   reread |-> FALSE, attempted |-> FALSE,
                   pools |-> <<>>, image_info |-> <<>>, todo |-> <<>>,
                   ids |-> <<>>, parent_md |-> "none",
                   scanned |-> {}, flattened |-> {}]

SrReturn(r) == [sr EXCEPT !.pc = "done", !.r = r]

\* Lines 815-831: -ENOENT when the snapshot is not in the table.
get_snap_namespace_r(res) ==
  IF IsErr(res) THEN res ELSE IF ~snapExists THEN "ENOENT" ELSE OK

\* Lines 1854-1878, up to the flatten: the snapshot must exist and be a
\* user snapshot.
SnapRemoveBegin(flags, ns) ==
  /\ sr.pc = "idle"
  /\ \E res \in StoreResults :
       LET r == get_snap_namespace_r(res)
           call == [IdleSnapRemove EXCEPT !.flags = flags]
       IN /\ faults' = Charge(res)
          /\ sr' = IF IsErr(r) THEN [call EXCEPT !.pc = "done", !.r = r]
                   ELSE IF ns # "user"
                   THEN [call EXCEPT !.pc = "done", !.r = "EINVAL"]
                   ELSE [call EXCEPT !.pc =
                           IF RBD_SNAP_REMOVE_FLATTEN \in flags
                           THEN "flatten" ELSE "is_protected"]
  /\ UNCHANGED notSnap
  /\ UNCHANGED <<prot, snapExists, parent, children, img, watchers,
                 mirror_mode, cl, un>>

\* ------------------------------------------------------ list_children_info
\* The pools of the cluster in the order of their ids, and the ids of the
\* children in the order of a std::set.
PoolOrder == <<"p1", "p2">>

ChildOrder == <<"c1", "c2">>

\* Line 767: rados.pool_list2.
pool_list2 == SelectSeq(PoolOrder, LAMBDA p : pool_tier[p] # "gone")

\* A scan that reads the index of a cache tier like any other.
scan_pool_any_tier(tier, res) ==
  IF tier = "gone" THEN "skip" ELSE IF IsErr(res) THEN res ELSE "read"

\* Lines 776-808: what the scan does with one pool. A pool that no longer
\* exists (-ENOENT from pool_get_base_tier or ioctx_create2) and a pool
\* that is not its own base tier are passed over; any other error ends the
\* search.
scan_pool(tier, res) ==
  IF tier = "gone" THEN "skip"
  ELSE IF IsErr(res) THEN res
  ELSE IF tier # "base" THEN "skip"
  ELSE "read"

\* Lines 809: image_info.insert.
info_insert(info, pool, ids) ==
  [q \in DOMAIN info \cup {pool} |-> IF q = pool THEN ids ELSE info[q]]

\* Lines 646-653 and 755-771: flatten_children calls list_children_info,
\* which refreshes the handle, returns 0 with nothing listed for an image
\* without layering, and else lists the pools.
ListChildrenInfo ==
  /\ sr.pc = "flatten"
  /\ \E res \in StoreResults :
       /\ faults' = Charge(res)
       /\ sr' = IF IsErr(res) THEN SrReturn(res)
                ELSE IF RBD_FEATURE_LAYERING \notin parent.features
                THEN [sr EXCEPT !.pc = "is_protected"]
                ELSE [sr EXCEPT !.pc = "lci_scan", !.pools = pool_list2]
  /\ UNCHANGED notSnap
  /\ UNCHANGED <<prot, snapExists, parent, children, img, watchers,
                 mirror_mode, cl, un>>

\* Lines 773-810: one pool of the list.
ListChildrenScan ==
  /\ sr.pc = "lci_scan"
  /\ sr.pools # <<>>
  /\ LET pool == Head(sr.pools)
     IN \E res \in StoreResults :
          LET e == scan_pool(pool_tier[pool], res)
          IN /\ faults' = Charge(res)
             /\ sr' = IF e = "skip" THEN [sr EXCEPT !.pools = Tail(@)]
                      ELSE IF e = "read"
                      THEN [sr EXCEPT !.pools = Tail(@),
                              !.scanned = @ \cup {pool},
                              !.image_info =
                                 info_insert(@, pool, children[pool])]
                      ELSE SrReturn(e)
  /\ UNCHANGED notSnap
  /\ UNCHANGED <<prot, snapExists, parent, children, img, watchers,
                 mirror_mode, cl, un>>

\* --------------------------------------------------------- flatten_children
\* Lines 812 and 655-661: list_children_info returns 0; nothing listed ends
\* flatten_children, else the pools listed are visited in order.
FlattenChildren ==
  /\ sr.pc = "lci_scan"
  /\ sr.pools = <<>>
  /\ sr' = IF DOMAIN sr.image_info = {}
           THEN [sr EXCEPT !.pc = "is_protected"]
           ELSE [sr EXCEPT !.pc = "fl_pool",
                   !.todo = SelectSeq(PoolOrder,
                                      LAMBDA p : p \in DOMAIN sr.image_info)]
  /\ UNCHANGED notSnap
  /\ UNCHANGED <<prot, snapExists, parent, children, img, watchers,
                 mirror_mode, faults, cl, un>>

\* Lines 661-671 and 705-709: the next pool listed; here a pool that no
\* longer exists is an error. After the last pool flatten_children returns
\* 0 and snap_remove goes on.
FlattenPool ==
  /\ sr.pc = "fl_pool"
  /\ IF sr.todo = <<>>
     THEN /\ sr' = [sr EXCEPT !.pc = "is_protected"]
          /\ UNCHANGED faults
     ELSE LET pool == Head(sr.todo)
          IN \E res \in StoreResults :
               LET r == IF pool_tier[pool] = "gone" THEN "ENOENT" ELSE res
               IN /\ faults' = Charge(res)
                  /\ sr' = IF IsErr(r) THEN SrReturn(r)
                           ELSE [sr EXCEPT !.pc = "fl_open",
                                   !.ids = SelectSeq(ChildOrder,
                                             LAMBDA c : c \in sr.image_info[pool])]
  /\ UNCHANGED notSnap
  /\ UNCHANGED <<prot, snapExists, parent, children, img, watchers,
                 mirror_mode, cl, un>>

\* Lines 671-679: open the next child of the pool by its id; the handle
\* caches the child's parent specification.
FlattenOpen ==
  /\ sr.pc = "fl_open"
  /\ IF sr.ids = <<>>
     THEN /\ sr' = [sr EXCEPT !.pc = "fl_pool", !.todo = Tail(@)]
          /\ UNCHANGED <<faults, watchers>>
     ELSE LET c == Head(sr.ids)
          IN \E res \in StoreResults :
               LET r == IF res = OK /\ ~img[c].hdr THEN "ENOENT" ELSE res
               IN /\ faults' = Charge(res)
                  /\ watchers' = IF r = OK THEN [watchers EXCEPT ![c] = @ + 1]
                                 ELSE watchers
                  /\ sr' = IF IsErr(r) THEN SrReturn(r)
                           ELSE [sr EXCEPT !.pc = "fl_flatten",
                                   !.parent_md = IF img[c].parent THEN "P"
                                                 ELSE "none"]
  /\ UNCHANGED notSnap
  /\ UNCHANGED <<prot, snapExists, parent, children, img, mirror_mode, cl, un>>

\* Operations::flatten: the child's data is made its own and the parent
\* link dropped from the header; the request takes the child out of the
\* child index itself unless the child's snapshots still need the parent
\* (no deep-flatten, snapshots present). An image without parent is refused.
flatten_r(c, res) ==
  IF IsErr(res) THEN res ELSE IF ~img[c].parent THEN "EINVAL" ELSE OK

flatten_keeps_registration(c) == ~img[c].deep_flatten /\ img[c].snaps

\* Lines 680-687.
FlattenFlatten ==
  /\ sr.pc = "fl_flatten"
  /\ LET c == Head(sr.ids)
     IN \E res \in StoreResults :
          LET r == flatten_r(c, res)
          IN /\ faults' = Charge(res)
             /\ img' = IF r = OK THEN [img EXCEPT ![c].parent = FALSE] ELSE img
             /\ children' = IF r = OK /\ ~flatten_keeps_registration(c)
                            THEN remove_child(img[c].pool, c) ELSE children
             /\ watchers' = IF IsErr(r) THEN [watchers EXCEPT ![c] = @ - 1]
                            ELSE watchers
             /\ sr' = IF IsErr(r) THEN SrReturn(r)
                      ELSE [sr EXCEPT !.pc = "fl_remove_child",
                                      !.flattened = @ \cup {c}]
  /\ UNCHANGED notSnap
  /\ UNCHANGED <<prot, snapExists, parent, mirror_mode, cl, un>>

\* A flatten_children that leaves the index to the flatten request.
needs_remove_child_never(deep_flatten, has_snaps) == FALSE

\* Lines 689-690.
needs_remove_child(deep_flatten, has_snaps) == ~deep_flatten /\ has_snaps

\* Lines 689-704: a child without deep-flatten that has snapshots is taken
\* out of the child index under the parent specification of its handle;
\* then the handle is closed.
FlattenRemoveChild ==
  /\ sr.pc = "fl_remove_child"
  /\ LET c == Head(sr.ids)
         pool == Head(sr.todo)
     IN IF needs_remove_child(img[c].deep_flatten, img[c].snaps)
        THEN \E res \in StoreResults :
               LET r == IF IsErr(res) THEN res
                        ELSE IF sr.parent_md = "none" THEN "ENOENT"
                        ELSE remove_child_r(pool, c)
               IN /\ faults' = Charge(res)
                  /\ children' = IF r = OK THEN remove_child(pool, c)
                                 ELSE children
                  /\ sr' = IF remove_child_failed(r) THEN SrReturn(r)
                           ELSE [sr EXCEPT !.pc = "fl_open", !.ids = Tail(@)]
        ELSE /\ sr' = [sr EXCEPT !.pc = "fl_open", !.ids = Tail(@)]
             /\ UNCHANGED <<faults, children>>
  /\ watchers' = [watchers EXCEPT ![Head(sr.ids)] = @ - 1]
  /\ UNCHANGED notSnap
  /\ UNCHANGED <<prot, snapExists, parent, img, mirror_mode, cl, un>>

\* A pool is removed from the cluster.
PoolRemoved(p) ==
  /\ pool_tier[p] # "gone"
  /\ pool_tier' = [pool_tier EXCEPT ![p] = "gone"]
  /\ UNCHANGED notPool

\* Lines 833-853: PROTECTED and UNPROTECTING both read as protected.
snap_is_protected_r(res) ==
  IF IsErr(res) THEN res ELSE IF ~snapExists THEN "ENOENT" ELSE OK

\* A read that takes an UNPROTECTING snapshot for an unprotected one.
snap_is_protected_val_strict == prot = "protected"

snap_is_protected_val == prot # "unprotected"

\* An unprotect issued whenever the flag is set.
needs_unprotect_always(is_protected, flags) ==
  RBD_SNAP_REMOVE_UNPROTECT \in flags

\* Line 1886.
needs_unprotect(is_protected, flags) ==
  is_protected /\ RBD_SNAP_REMOVE_UNPROTECT \in flags

\* Lines 1880-1886.
SnapRemoveIsProtected ==
  /\ sr.pc = "is_protected"
  /\ \E res \in StoreResults :
       LET r == snap_is_protected_r(res)
           is_protected == snap_is_protected_val
       IN /\ faults' = Charge(res)
          /\ sr' = IF IsErr(r) THEN SrReturn(r)
                   ELSE [sr EXCEPT !.is_protected = is_protected,
                                   !.pc = IF needs_unprotect(is_protected,
                                                             sr.flags)
                                          THEN "unprotect" ELSE "remove"]
  /\ UNCHANGED notSnap
  /\ UNCHANGED <<prot, snapExists, parent, children, img, watchers,
                 mirror_mode, cl, un>>

\* Line 1887: operations->snap_unprotect starts an unprotect request.
SnapRemoveUnprotect ==
  /\ sr.pc = "unprotect"
  /\ un.pc = "idle"
  /\ sr' = [sr EXCEPT !.pc = "unprotect_wait", !.unprotects = @ + 1]
  /\ IF snapExists /\ prot = "protected"
     THEN /\ prot' = "unprotecting"
          /\ un' = [IdleUnprotect EXCEPT !.pc = "scan", !.todo = Pools]
     ELSE /\ un' = [IdleUnprotect EXCEPT !.pc = "done", !.r = "EINVAL"]
          /\ UNCHANGED prot
  /\ UNCHANGED notSnap
  /\ UNCHANGED <<snapExists, parent, children, img, watchers, mirror_mode,
                 faults, cl>>

\* Lines 1888-1891: the unprotect request has completed.
SnapRemoveUnprotectDone ==
  /\ sr.pc = "unprotect_wait"
  /\ un.pc = "done"
  /\ un' = IdleUnprotect
  /\ sr' = IF IsErr(un.r) THEN SrReturn(un.r)
           ELSE [sr EXCEPT !.pc = "reread"]
  /\ UNCHANGED notSnap
  /\ UNCHANGED <<prot, snapExists, parent, children, img, watchers,
                 mirror_mode, faults, cl>>

\* Lines 1893-1900: the protection state is read again; a snapshot that is
\* still protected ends the process (ceph_abort).
SnapRemoveReread ==
  /\ sr.pc = "reread"
  /\ \E res \in StoreResults :
       LET r == snap_is_protected_r(res)
           is_protected == snap_is_protected_val
       IN /\ faults' = Charge(res)
          /\ sr' = IF IsErr(r) THEN SrReturn(r)
                   ELSE [sr EXCEPT !.is_protected = is_protected,
                                   !.reread = TRUE,
                                   !.pc = IF is_protected THEN "aborted"
                                          ELSE "remove"]
  /\ UNCHANGED notSnap
  /\ UNCHANGED <<prot, snapExists, parent, children, img, watchers,
                 mirror_mode, cl, un>>

\* Operations::snap_remove: the request refuses a snapshot that is not
\* unprotected.
snap_remove_r(res) ==
  IF IsErr(res) THEN res
  ELSE IF ~snapExists THEN "ENOENT"
  ELSE IF prot # "unprotected" THEN "EBUSY"
  ELSE OK

\* Lines 1903-1907.
SnapRemoveRequest ==
  /\ sr.pc = "remove"
  /\ \E res \in StoreResults :
       LET r == snap_remove_r(res)
       IN /\ faults' = Charge(res)
          /\ snapExists' = IF r = OK THEN FALSE ELSE snapExists
          /\ sr' = [sr EXCEPT !.pc = "done", !.r = r, !.attempted = TRUE]
  /\ UNCHANGED notSnap
  /\ UNCHANGED <<prot, parent, children, img, watchers, mirror_mode, cl, un>>

\* The caller takes the result of snap_remove.
SnapRemoveReturn ==
  /\ sr.pc = "done"
  /\ sr' = IdleSnapRemove
  /\ UNCHANGED notSnap
  /\ UNCHANGED <<prot, snapExists, parent, children, img, watchers,
                 mirror_mode, faults, cl, un>>

\* --------------------------------------------------------- exclusive lock
\* Handles open on the image; the address of a handle's client is the name
\* of the handle.
Handles == {"h1", "h2"}

RBD_LOCK_MODE_EXCLUSIVE == "exclusive"
LockModes == {RBD_LOCK_MODE_EXCLUSIVE, "shared"}

\* owner is exclusive_lock->is_lock_owner(), the handle's cached state;
\* known is the owner lock_get_owners last reported to the handle's user;
\* held records that lock_acquire returned 0 and the handle has since
\* neither released the lock nor had it broken; attempts counts the
\* store-side releases the current call has issued; mode is the lock mode
\* the current lock_acquire was called with; notified that break_lock has
\* sent the update notification.
IdleHandle == [pc |-> "idle", op |-> "none", r |-> OK, owner |-> FALSE,
               is_owner |-> FALSE, lock_owner |-> "none",
               address |-> "none", known |-> "none", held |-> FALSE,
               blacklisted |-> FALSE, broke |-> FALSE, attempts |-> 0,
               mode |-> "none", notified |-> FALSE]

\* A call of handle h begins: the locals of the previous call are gone.
Call(h, op) ==
  [IdleHandle EXCEPT !.op = op, !.owner = lk[h].owner, !.known = lk[h].known,
                     !.held = lk[h].held]

\* Outcomes of one store operation sent by handle h: a blacklisted client
\* is refused.
LockStoreResults(h) ==
  IF h \in blacklist THEN {"EBLACKLISTED"} ELSE StoreResults

LockCharge(res) == IF res \in TransportErrors THEN faults - 1 ELSE faults

\* ExclusiveLock::assert_header_locked: the store checks that the header is
\* locked by this handle.
assert_header_locked(h, res) ==
  IF IsErr(res) THEN res ELSE IF locker = h THEN OK ELSE "EBUSY"

\* Lines 1441-1460.
IsExclusiveLockOwner(h) ==
  /\ lk[h].pc = "idle"
  /\ IF ~exclusive_lock \/ ~lk[h].owner
     THEN /\ lk' = [lk EXCEPT ![h] = [Call(h, "is_owner") EXCEPT !.pc = "done"]]
          /\ UNCHANGED faults
     ELSE \E res \in LockStoreResults(h) :
            LET r == assert_header_locked(h, res)
            IN /\ faults' = LockCharge(res)
               /\ lk' = [lk EXCEPT ![h] =
                           [Call(h, "is_owner") EXCEPT !.pc = "done", !.r = r,
                                                       !.is_owner = (r = OK)]]
  /\ UNCHANGED <<exclusive_lock, blacklist_on_break_lock, locker, blacklist>>
  /\ UNCHANGED notLock

\* Lines 1468-1488: what lock_acquire decides before it sends a request;
\* "request" stands for going on to request_lock.
lock_acquire_entry(lock_mode, has_lock, is_lock_owner) ==
  IF lock_mode # RBD_LOCK_MODE_EXCLUSIVE THEN "EOPNOTSUPP"
  ELSE IF ~has_lock THEN "EINVAL"
  ELSE IF is_lock_owner THEN OK
  ELSE "request"

\* Lines 1462-1491.
LockAcquire(h, lock_mode) ==
  /\ lk[h].pc = "idle"
  /\ LET e == lock_acquire_entry(lock_mode, exclusive_lock, lk[h].owner)
     IN lk' = [lk EXCEPT ![h] =
                 IF e = "request"
                 THEN [Call(h, "acquire") EXCEPT !.pc = "acq_wait",
                                                 !.mode = lock_mode]
                 ELSE [Call(h, "acquire") EXCEPT !.pc = "done", !.r = e,
                                                 !.mode = lock_mode,
                                                 !.held = @ \/ e = OK]]
  /\ UNCHANGED <<exclusive_lock, blacklist_on_break_lock, locker, blacklist,
                 faults>>
  /\ UNCHANGED notLock

\* ExclusiveLock::request_lock completes: the store grants the lock when the
\* header is unlocked; a current owner under the standard policy does not
\* give the lock up, and the request then completes without the lock.
LockRequestDone(h) ==
  /\ lk[h].pc = "acq_wait"
  /\ \E res \in LockStoreResults(h) :
       LET granted == res = OK /\ locker = "none"
       IN /\ faults' = LockCharge(res)
          /\ locker' = IF granted THEN h ELSE locker
          /\ lk' = [lk EXCEPT ![h].pc = "acq_check", ![h].r = res,
                              ![h].owner = granted]
  /\ UNCHANGED <<exclusive_lock, blacklist_on_break_lock, blacklist>>
  /\ UNCHANGED notLock

\* A final check that trusts the result of the request.
lock_acquire_result_trusting(r, is_lock_owner) == r

\* Lines 1493-1508.
lock_acquire_result(r, is_lock_owner) ==
  IF IsErr(r) THEN r ELSE IF ~is_lock_owner THEN "EROFS" ELSE OK

LockAcquireFinish(h) ==
  /\ lk[h].pc = "acq_check"
  /\ LET r == lock_acquire_result(lk[h].r, exclusive_lock /\ lk[h].owner)
     IN lk' = [lk EXCEPT ![h].pc = "done", ![h].r = r,
                         ![h].held = @ \/ r = OK]
  /\ UNCHANGED <<exclusive_lock, blacklist_on_break_lock, locker, blacklist,
                 faults>>
  /\ UNCHANGED notLock

\* An entry check that lets every handle release.
lock_release_entry_open(has_lock, is_lock_owner) == "release"

\* Lines 1520-1524: what lock_release decides before it releases; "release"
\* stands for going on to release_lock.
lock_release_entry(has_lock, is_lock_owner) ==
  IF ~has_lock \/ ~is_lock_owner THEN "EINVAL" ELSE "release"

\* Lines 1511-1527.
LockRelease(h) ==
  /\ lk[h].pc = "idle"
  /\ LET e == lock_release_entry(exclusive_lock, lk[h].owner)
     IN lk' = [lk EXCEPT ![h] =
                 IF e = "release"
                 THEN [Call(h, "release") EXCEPT !.pc = "rel_wait"]
                 ELSE [Call(h, "release") EXCEPT !.pc = "done", !.r = e]]
  /\ UNCHANGED <<exclusive_lock, blacklist_on_break_lock, locker, blacklist,
                 faults>>
  /\ UNCHANGED notLock

\* ExclusiveLock::release_lock completes, and lines 1529-1535: the store
\* drops the handle's lock; a failed release leaves the handle as it was,
\* and lock_release returns its error without another attempt.
LockReleaseDone(h) ==
  /\ lk[h].pc = "rel_wait"
  /\ \E res \in LockStoreResults(h) :
       /\ faults' = LockCharge(res)
       /\ locker' = IF res = OK /\ locker = h THEN "none" ELSE locker
       /\ lk' = [lk EXCEPT ![h].pc = "done", ![h].r = res,
                           ![h].attempts = @ + 1,
                           ![h].owner = IF res = OK THEN FALSE ELSE @,
                           ![h].held = IF res = OK THEN FALSE ELSE @]
  /\ UNCHANGED <<exclusive_lock, blacklist_on_break_lock, blacklist>>
  /\ UNCHANGED notLock

\* GetLockerRequest: the locker recorded on the header, -ENOENT when there
\* is none.
get_locker_r(res) ==
  IF IsErr(res) THEN res ELSE IF locker = "none" THEN "ENOENT" ELSE OK

\* Lines 1538-1563.
LockGetOwners(h) ==
  /\ lk[h].pc = "idle"
  /\ \E res \in LockStoreResults(h) :
       LET r == get_locker_r(res)
       IN /\ faults' = LockCharge(res)
          /\ lk' = [lk EXCEPT ![h] =
                      [Call(h, "get_owners") EXCEPT
                         !.pc = "done", !.r = r,
                         !.known = IF r = OK THEN locker ELSE @]]
  /\ UNCHANGED <<exclusive_lock, blacklist_on_break_lock, locker, blacklist>>
  /\ UNCHANGED notLock

\* Lines 1565-1581: lock_break(ictx, lock_mode, lock_owner).
LockBreak(h, lock_mode, lock_owner) ==
  /\ lk[h].pc = "idle"
  /\ lk' = [lk EXCEPT ![h] =
              IF lock_mode # RBD_LOCK_MODE_EXCLUSIVE
              THEN [Call(h, "break") EXCEPT !.pc = "done", !.r = "EOPNOTSUPP",
                                            !.lock_owner = lock_owner]
              ELSE [Call(h, "break") EXCEPT !.pc = "brk_get",
                                            !.lock_owner = lock_owner]]
  /\ UNCHANGED <<exclusive_lock, blacklist_on_break_lock, locker, blacklist,
                 faults>>
  /\ UNCHANGED notLock

\* A comparison that lets every owner identity through.
lock_owner_mismatch_ignored(address, lock_owner) == FALSE

\* Line 1592.
lock_owner_mismatch(address, lock_owner) == address # lock_owner

\* Lines 1583-1594: read the locker and compare it with the caller's.
LockBreakGetLocker(h) ==
  /\ lk[h].pc = "brk_get"
  /\ \E res \in LockStoreResults(h) :
       LET r == get_locker_r(res)
       IN /\ faults' = LockCharge(res)
          /\ lk' = [lk EXCEPT ![h] =
                      IF IsErr(r) THEN [@ EXCEPT !.pc = "done", !.r = r]
                      ELSE IF lock_owner_mismatch(locker, lk[h].lock_owner)
                      THEN [@ EXCEPT !.pc = "done", !.r = "EBUSY",
                                     !.address = locker]
                      ELSE [@ EXCEPT !.address = locker,
                                     !.pc = IF blacklist_on_break_lock
                                            THEN "brk_blacklist"
                                            ELSE "brk_break"]]
  /\ UNCHANGED <<exclusive_lock, blacklist_on_break_lock, locker, blacklist>>
  /\ UNCHANGED notLock

\* BreakRequest, first part: blacklist the address of the locker read.
LockBreakBlacklist(h) ==
  /\ lk[h].pc = "brk_blacklist"
  /\ \E res \in LockStoreResults(h) :
       /\ faults' = LockCharge(res)
       /\ blacklist' = IF res = OK THEN blacklist \cup {lk[h].address}
                       ELSE blacklist
       /\ lk' = [lk EXCEPT ![h] =
                   IF IsErr(res) THEN [@ EXCEPT !.pc = "done", !.r = res]
                   ELSE [@ EXCEPT !.pc = "brk_break", !.blacklisted = TRUE]]
  /\ UNCHANGED <<exclusive_lock, blacklist_on_break_lock, locker>>
  /\ UNCHANGED notLock

\* BreakRequest, second part, and lines 1601-1608: break the lock of the
\* locker read; -ENOENT when that locker no longer holds the lock.
LockBreakBreak(h) ==
  /\ lk[h].pc = "brk_break"
  /\ \E res \in LockStoreResults(h) :
       LET r == IF IsErr(res) THEN res
                ELSE IF locker # lk[h].address THEN "ENOENT" ELSE OK
           victim == lk[h].address
       IN /\ faults' = LockCharge(res)
          /\ locker' = IF r = OK THEN "none" ELSE locker
          /\ lk' = [g \in Handles |->
                      IF g = h
                      THEN [lk[h] EXCEPT !.pc = "done", !.r = r,
                              !.broke = (r = OK),
                              !.held = IF r = OK /\ victim = h THEN FALSE
                                       ELSE @]
                      ELSE IF r = OK /\ g = victim
                      THEN [lk[g] EXCEPT !.held = FALSE]
                      ELSE lk[g]]
  /\ UNCHANGED <<exclusive_lock, blacklist_on_break_lock, blacklist>>
  /\ UNCHANGED notLock

\* -------------------------------------------------------------- break_lock
\* Client names break_lock is called with: those of the handles, and one
\* that entity_name_t::parse refuses.
BreakClients == Handles \cup {"garbage"}

\* Lines 2219-2230: refresh, parse the client name, then read the lockers
\* when blacklisting is configured ("info"), else go on to the break.
break_lock_entry(refresh_r, client, blacklist_on) ==
  IF IsErr(refresh_r) THEN refresh_r
  ELSE IF client \notin Handles THEN "EINVAL"
  ELSE IF blacklist_on THEN "info"
  ELSE "break"

\* Lines 2245-2255: the address of the named client among the lockers; ""
\* when it is not one of them.
client_address(lockers, client) == IF client \in lockers THEN client ELSE ""

\* A break that goes on whatever became of the blacklist entry.
after_blacklist_add_lenient(r) == "break"

\* Lines 2261-2265.
after_blacklist_add(r) == IF IsErr(r) THEN r ELSE "break"

\* Lines 2213-2230: break_lock(ictx, client, cookie).
BreakLock(h, client) ==
  /\ lk[h].pc = "idle"
  /\ \E res \in LockStoreResults(h) :
       LET e == break_lock_entry(res, client, blacklist_on_break_lock)
       IN /\ faults' = LockCharge(res)
          /\ lk' = [lk EXCEPT ![h] =
                      IF e \in {"info", "break"}
                      THEN [Call(h, "break_lock") EXCEPT
                              !.pc = "bl_" \o e, !.lock_owner = client]
                      ELSE [Call(h, "break_lock") EXCEPT
                              !.pc = "done", !.r = e, !.lock_owner = client]]
  /\ UNCHANGED <<exclusive_lock, blacklist_on_break_lock, locker, blacklist>>
  /\ UNCHANGED notLock

\* Lines 2231-2255: get_lock_info and the search for the client.
BreakLockInfo(h) ==
  /\ lk[h].pc = "bl_info"
  /\ \E res \in LockStoreResults(h) :
       LET lockers == {locker} \ {"none"}
           address == client_address(lockers, lk[h].lock_owner)
       IN /\ faults' = LockCharge(res)
          /\ lk' = [lk EXCEPT ![h] =
                      IF IsErr(res) THEN [@ EXCEPT !.pc = "done", !.r = res]
                      ELSE IF address = ""
                      THEN [@ EXCEPT !.pc = "done", !.r = "ENOENT"]
                      ELSE [@ EXCEPT !.pc = "bl_blacklist",
                                     !.address = address]]
  /\ UNCHANGED <<exclusive_lock, blacklist_on_break_lock, locker, blacklist>>
  /\ UNCHANGED notLock

\* Lines 2257-2265: rados.blacklist_add of the address found.
BreakLockBlacklist(h) ==
  /\ lk[h].pc = "bl_blacklist"
  /\ \E res \in LockStoreResults(h) :
       LET e == after_blacklist_add(res)
       IN /\ faults' = LockCharge(res)
          /\ blacklist' = IF res = OK THEN blacklist \cup {lk[h].address}
                          ELSE blacklist
          /\ lk' = [lk EXCEPT ![h] =
                      IF e = "break"
                      THEN [@ EXCEPT !.pc = "bl_break",
                                     !.blacklisted = (res = OK)]
                      ELSE [@ EXCEPT !.pc = "done", !.r = e]]
  /\ UNCHANGED <<exclusive_lock, blacklist_on_break_lock, locker>>
  /\ UNCHANGED notLock

\* Lines 2268-2273: cls lock break_lock of the named client's lock, -ENOENT
\* when that client holds none; notify_update only after a break.
BreakLockBreak(h) ==
  /\ lk[h].pc = "bl_break"
  /\ \E res \in LockStoreResults(h) :
       LET victim == lk[h].lock_owner
           r == IF IsErr(res) THEN res
                ELSE IF locker # victim THEN "ENOENT" ELSE OK
       IN /\ faults' = LockCharge(res)
          /\ locker' = IF r = OK THEN "none" ELSE locker
          /\ lk' = [g \in Handles |->
                      IF g = h
                      THEN [lk[h] EXCEPT !.pc = "done", !.r = r,
                              !.broke = (r = OK), !.notified = (r = OK),
                              !.held = IF r = OK /\ victim = h THEN FALSE
                                       ELSE @]
                      ELSE IF r = OK /\ g = victim
                      THEN [lk[g] EXCEPT !.held = FALSE]
                      ELSE lk[g]]
  /\ UNCHANGED <<exclusive_lock, blacklist_on_break_lock, blacklist>>
  /\ UNCHANGED notLock

\* The handle's watch tells it that its lock is gone.
LockLost(h) ==
  /\ lk[h].owner
  /\ lk[h].pc \in {"idle", "done"}
  /\ locker # h
  /\ lk' = [lk EXCEPT ![h].owner = FALSE]
  /\ UNCHANGED <<exclusive_lock, blacklist_on_break_lock, locker, blacklist,
                 faults>>
  /\ UNCHANGED notLock

\* The caller takes the result of the call.
LockReturn(h) ==
  /\ lk[h].pc = "done"
  /\ lk' = [lk EXCEPT ![h] = Call(h, "none")]
  /\ UNCHANGED <<exclusive_lock, blacklist_on_break_lock, locker, blacklist,
                 faults>>
  /\ UNCHANGED notLock

\* ----------------------------------------------------------- mirroring
\* Images of the pool whose mirror mode is mirror_mode, in the order of
\* their ids.
MImages == {"i1", "i2"}

ImageOrder == <<"i1", "i2">>

MirrorModes == {"disabled", "image", "pool"}

\* pool is the pool the image lives in; mirror_mode is the mode of the
\* first pool.
NoMirrorImage == [journaling |-> FALSE, state |-> "none", parent |-> "none",
                  pool |-> "p1"]

IdleModeSet == [pc |-> "idle", next |-> "none", current |-> "none", r |-> OK,
                todo |-> <<>>, enabled0 |-> {}, mode0 |-> "none",
                state0 |-> <<>>]

\* The images to walk, in id order.
InOrder(S) == SelectSeq(ImageOrder, LAMBDA i : i \in S)

\* Images that have a mirror record.
mirror_images == {i \in MImages : mimg[i].state # "none"}

\* Image ids with the clones of a snapshot of image i.
children_of(i) == {j \in MImages : mimg[j].parent = i}

\* A check that looks at the clones in the image's own pool only.
has_mirrored_child_same_pool(i) ==
  \E j \in children_of(i) :
    mimg[j].pool = mimg[i].pool /\ mimg[j].state # "none"

\* Lines 2615-2623: a clone of the image has a mirror record.
has_mirrored_child(i) == \E j \in children_of(i) : mimg[j].state # "none"

\* mirror_mode_set returns r.
MmsReturn(r) == [ms EXCEPT !.pc = "done", !.r = r]

\* Lines 2935-2950: mirror_mode_set(io_ctx, mirror_mode). enabled0 records
\* the images that are enabled, state0 the mirror state of every image and
\* mode0 the mode of the pool when the call is made. No call is made once MaxUuids uuids have been written.
MirrorModeSet(next) ==
  /\ ms.pc = "idle"
  /\ mirror_uuid < MaxUuids
  /\ ms' = [IdleModeSet EXCEPT
              !.next = next,
              !.enabled0 = {i \in MImages : mimg[i].state = "enabled"},
              !.mode0 = mirror_mode,
              !.state0 = [i \in MImages |-> mimg[i].state],
              !.pc = IF next \notin MirrorModes THEN "done"
                     ELSE IF next = "disabled" THEN "peers" ELSE "get",
              !.r = IF next \notin MirrorModes THEN "EINVAL" ELSE OK]
  /\ UNCHANGED <<mirror_mode, faults, mimg, peers>>
  /\ UNCHANGED notMirror

\* A check that lets a pool with peers be disabled.
mirror_peers_check_skipped(has_peers) == OK

\* Lines 2960-2963.
mirror_peers_check(has_peers) == IF has_peers THEN "EBUSY" ELSE OK

\* Lines 2953-2964: a pool with peers cannot be disabled.
MmsPeerList ==
  /\ ms.pc = "peers"
  /\ \E res \in StoreResults :
       LET r == IF IsErr(res) THEN res ELSE mirror_peers_check(peers)
       IN /\ faults' = Charge(res)
          /\ ms' = IF IsErr(r) THEN MmsReturn(r)
                   ELSE [ms EXCEPT !.pc = "get"]
  /\ UNCHANGED <<mirror_mode, mimg, peers>>
  /\ UNCHANGED notMirror

\* A step that writes a uuid on every change of mode.
after_mode_get_always_uuid(current, next) ==
  IF current = next THEN "done" ELSE "uuid"

\* Lines 2974-2985: what follows the read of the current mode: "done" for
\* the return of 0, "uuid" for the allocation of a uuid, "to_image" for
\* going on.
after_mode_get(current, next) ==
  IF current = next THEN "done"
  ELSE IF current = "disabled" THEN "uuid"
  ELSE "to_image"

\* Lines 2966-2985: read the current mode; nothing to do when it is the
\* requested one; a pool leaving the disabled mode gets a new uuid.
MmsModeGet ==
  /\ ms.pc = "get"
  /\ \E res \in StoreResults :
       /\ faults' = Charge(res)
       /\ ms' = IF IsErr(res) THEN MmsReturn(res)
                ELSE LET step == after_mode_get(mirror_mode, ms.next)
                     IN IF step = "done"
                        THEN [MmsReturn(OK) EXCEPT !.current = mirror_mode]
                        ELSE [ms EXCEPT !.current = mirror_mode, !.pc = step]
  /\ UNCHANGED <<mirror_mode, mimg, peers>>
  /\ UNCHANGED notMirror

\* Lines 2977-2984: a uuid is generated and written for the pool.
MmsUuidSet ==
  /\ ms.pc = "uuid"
  /\ \E res \in StoreResults :
       /\ faults' = Charge(res)
       /\ mirror_uuid' = IF res = OK THEN mirror_uuid + 1 ELSE mirror_uuid
       /\ ms' = IF IsErr(res) THEN MmsReturn(res)
                ELSE [ms EXCEPT !.pc = "to_image"]
  /\ UNCHANGED <<mirror_mode, mimg, peers>>
  /\ UNCHANGED notUuid
  /\ UNCHANGED imageVars

\* Lines 2987-3005: on the way to any other mode the pool is first put in
\* image mode.
MmsSetImageMode ==
  /\ ms.pc = "to_image"
  /\ IF ms.current # "image"
     THEN \E res \in StoreResults :
            /\ faults' = Charge(res)
            /\ mirror_mode' = IF res = OK THEN "image" ELSE mirror_mode
            /\ ms' = IF IsErr(res) THEN MmsReturn(res)
                     ELSE IF ms.next = "image" THEN MmsReturn(OK)
                     ELSE [ms EXCEPT !.pc = "list"]
     ELSE /\ ms' = [ms EXCEPT !.pc = "list"]
          /\ UNCHANGED <<faults, mirror_mode>>
  /\ UNCHANGED <<mimg, peers>>
  /\ UNCHANGED notMirror

\* Lines 3008-3013 and 3053-3058: every image on the way to pool mode, the
\* images with a mirror record on the way to disabled.
MmsList ==
  /\ ms.pc = "list"
  /\ \E res \in StoreResults :
       /\ faults' = Charge(res)
       /\ ms' = IF IsErr(res) THEN MmsReturn(res)
                ELSE [ms EXCEPT !.pc = "image",
                                !.todo = IF ms.next = "pool"
                                         THEN InOrder(MImages)
                                         ELSE InOrder(mirror_images)]
  /\ UNCHANGED <<mirror_mode, mimg, peers>>
  /\ UNCHANGED notMirror

\* Lines 2490-2531 and 134-137, for mirror_image_enable(img_ctx, true) on an
\* image of this pool: image mode, a journaled parent, a journaled image.
mirror_image_enable_check(i) ==
  IF mirror_mode # "image" THEN "EINVAL"
  ELSE IF mimg[i].parent # "none" /\ ~mimg[mimg[i].parent].journaling
  THEN "EINVAL"
  ELSE IF ~mimg[i].journaling THEN "EINVAL"
  ELSE OK

\* A failure that goes on to the next image.
enable_failed_passed_over(r) == [ms EXCEPT !.todo = Tail(@)]

\* Lines 3020-3024, 3030-3035 and 3038-3042: a failure on the way to pool
\* mode ends the call.
enable_failed(r) == MmsReturn(r)

\* Lines 3015-3043: to pool mode, next image: an image without journaling is
\* passed over, a journaled one is opened and enabled. `res` is the result
\* of the first store operation that fails.
MmsEnableImage ==
  /\ ms.pc = "image"
  /\ ms.next = "pool"
  /\ ms.todo # <<>>
  /\ LET i == Head(ms.todo) IN
     \E res \in StoreResults :
       LET r == IF IsErr(res) THEN res
                ELSE IF mimg[i].journaling THEN mirror_image_enable_check(i)
                ELSE OK
       IN /\ faults' = Charge(res)
          /\ mimg' = IF r = OK /\ mimg[i].journaling
                     THEN [mimg EXCEPT ![i].state = "enabled"] ELSE mimg
          /\ ms' = IF IsErr(r) THEN enable_failed(r)
                   ELSE IF mimg[i].journaling THEN [ms EXCEPT !.pc = "close"]
                   ELSE [ms EXCEPT !.todo = Tail(@)]
  /\ UNCHANGED <<mirror_mode, peers>>
  /\ UNCHANGED notMirror

\* Lines 3061-3073: image mode to disabled, next image: refused while an
\* image is enabled.
MmsCheckImage ==
  /\ ms.pc = "image"
  /\ ms.next = "disabled"
  /\ ms.current = "image"
  /\ ms.todo # <<>>
  /\ LET i == Head(ms.todo) IN
     \E res \in StoreResults :
       /\ faults' = Charge(res)
       /\ ms' = IF IsErr(res) THEN MmsReturn(res)
                ELSE IF mimg[i].state = "enabled" THEN MmsReturn("EINVAL")
                ELSE [ms EXCEPT !.todo = Tail(@)]
  /\ UNCHANGED <<mirror_mode, mimg, peers>>
  /\ UNCHANGED notMirror

\* Lines 3075-3082 and 2538-2571: pool mode to disabled, next image: open it
\* and begin mirror_image_disable(img_ctx, false).
MmsDisableImage ==
  /\ ms.pc = "image"
  /\ ms.next = "disabled"
  /\ ms.current # "image"
  /\ ms.todo # <<>>
  /\ LET i == Head(ms.todo) IN
     \E res \in StoreResults :
       /\ faults' = Charge(res)
       /\ ms' = IF IsErr(res) THEN MmsReturn(res)
                ELSE IF mirror_mode # "image" THEN MmsReturn("EINVAL")
                ELSE IF mimg[i].state = "none" THEN [ms EXCEPT !.pc = "close"]
                ELSE [ms EXCEPT !.pc = "dis_mark"]
  /\ UNCHANGED <<mirror_mode, mimg, peers>>
  /\ UNCHANGED notMirror

\* Lines 2572-2577: the record is marked disabling.
MidMark ==
  /\ ms.pc = "dis_mark"
  /\ \E res \in StoreResults :
       /\ faults' = Charge(res)
       /\ mimg' = IF res = OK
                  THEN [mimg EXCEPT ![Head(ms.todo)].state = "disabling"]
                  ELSE mimg
       /\ ms' = IF IsErr(res) THEN MmsReturn(res)
                ELSE [ms EXCEPT !.pc = "dis_children"]
  /\ UNCHANGED <<mirror_mode, peers>>
  /\ UNCHANGED notMirror

\* The store operations of the children check: the listing of the clones,
\* the access to a clone's pool, the read of a clone's mirror record; the
\* last two are made only when there is a clone.
ChildCheckOps(i) ==
  IF children_of(i) = {} THEN {"list"} ELSE {"list", "pool", "get"}

\* Lines 2594-2625: the result of the children check when the operation
\* `failing` completes with `res`. A failed listing or pool access is
\* returned; a read of a clone's record that returns anything but -ENOENT
\* gives -EBUSY.
children_check_r(i, failing, res) ==
  IF IsErr(res) THEN (IF failing = "get" THEN "EBUSY" ELSE res)
  ELSE IF has_mirrored_child(i) THEN "EBUSY"
  ELSE OK

\* Lines 2591-2626: no clone of the image may have a mirror record.
MidChildren ==
  /\ ms.pc = "dis_children"
  /\ \E res \in StoreResults, failing \in ChildCheckOps(Head(ms.todo)) :
       LET r == children_check_r(Head(ms.todo), failing, res)
       IN /\ faults' = Charge(res)
          /\ ms' = IF IsErr(r) THEN [ms EXCEPT !.pc = "dis_rollback", !.r = r]
                   ELSE [ms EXCEPT !.pc = "dis_internal"]
  /\ UNCHANGED <<mirror_mode, mimg, peers>>
  /\ UNCHANGED notMirror

\* A teardown that leaves the mirror record in place.
mirror_image_kept(i) == mimg

\* mirror::DisableRequest with remove set: the mirror record is removed.
mirror_image_removed(i) == [mimg EXCEPT ![i].state = "none"]

\* Lines 2628-2632.
MidInternal ==
  /\ ms.pc = "dis_internal"
  /\ \E res \in StoreResults :
       /\ faults' = Charge(res)
       /\ mimg' = IF res = OK THEN mirror_image_removed(Head(ms.todo))
                  ELSE mimg
       /\ ms' = IF IsErr(res) THEN [ms EXCEPT !.pc = "dis_rollback", !.r = res]
                ELSE [ms EXCEPT !.pc = "close"]
  /\ UNCHANGED <<mirror_mode, peers>>
  /\ UNCHANGED notMirror

\* Lines 2579-2589: the record is written back as enabled; a failure of
\* that write is logged only. mirror_mode_set then returns (3085-3089).
MidRollback ==
  /\ ms.pc = "dis_rollback"
  /\ \E res \in StoreResults :
       /\ faults' = Charge(res)
       /\ mimg' = IF res = OK
                  THEN [mimg EXCEPT ![Head(ms.todo)].state = "enabled"]
                  ELSE mimg
       /\ ms' = MmsReturn(ms.r)
  /\ UNCHANGED <<mirror_mode, peers>>
  /\ UNCHANGED notMirror

\* Lines 3044-3049 and 3091-3096: close the image and go on to the next.
MmsCloseImage ==
  /\ ms.pc = "close"
  /\ \E res \in StoreResults :
       /\ faults' = Charge(res)
       /\ ms' = IF IsErr(res) THEN MmsReturn(res)
                ELSE [ms EXCEPT !.pc = "image", !.todo = Tail(@)]
  /\ UNCHANGED <<mirror_mode, mimg, peers>>
  /\ UNCHANGED notMirror

\* Lines 3101-3112: all images done, the requested mode is stored.
MmsSetMode ==
  /\ ms.pc = "image"
  /\ ms.todo = <<>>
  /\ \E res \in StoreResults :
       /\ faults' = Charge(res)
       /\ mirror_mode' = IF res = OK THEN ms.next ELSE mirror_mode
       /\ ms' = MmsReturn(res)
  /\ UNCHANGED <<mimg, peers>>
  /\ UNCHANGED notMirror

\* The caller takes the result.
MmsForget ==
  /\ ms.pc = "done"
  /\ ms' = IdleModeSet
  /\ UNCHANGED <<mirror_mode, faults, mimg, peers>>
  /\ UNCHANGED notMirror

\* ------------------------------------------ mirror_image_enable, _disable
\* before is the state of the image's mirror record when the call is made;
\* marked, rolled and teardown record that the call wrote the record as
\* disabling, wrote it back as enabled, and sent the disable request.
IdleImageCall == [pc |-> "idle", op |-> "none", image |-> "none",
                  relax |-> FALSE, force |-> FALSE, r |-> OK,
                  before |-> "none", marked |-> FALSE, rolled |-> FALSE,
                  teardown |-> FALSE]

MiReturn(r) == [mi EXCEPT !.pc = "done", !.r = r]

\* A mode check that lets the pool mode through.
mirror_mode_check_lax(mode) == IF mode = "disabled" THEN "EINVAL" ELSE OK

\* Lines 2498-2502 and 2551-2555.
mirror_mode_check(mode) == IF mode # "image" THEN "EINVAL" ELSE OK

\* cls_client::mirror_image_get: -ENOENT when the image has no mirror
\* record.
mirror_image_get_r(i, res) ==
  IF IsErr(res) THEN res ELSE IF mimg[i].state = "none" THEN "ENOENT" ELSE OK

\* Lines 2481-2502: mirror_image_enable(ictx, relax_same_pool_parent_check).
MirrorImageEnable(i, relax) ==
  /\ mi.pc = "idle"
  /\ mimg[i].pool = "p1"
  /\ \E res \in StoreResults :
       LET call == [IdleImageCall EXCEPT !.op = "enable", !.image = i,
                                         !.relax = relax,
                                         !.before = mimg[i].state]
           r == IF IsErr(res) THEN res ELSE mirror_mode_check(mirror_mode)
       IN /\ faults' = Charge(res)
          /\ mi' = IF IsErr(r) THEN [call EXCEPT !.pc = "done", !.r = r]
                   ELSE [call EXCEPT !.pc = "en_parent"]
  /\ UNCHANGED <<mirror_mode, mimg, peers, ms>>
  /\ UNCHANGED notImage

\* Lines 2509-2510: the relaxed check applies to a parent in the image's
\* own pool.
relaxed_parent_check(i, relax) ==
  relax /\ mimg[mimg[i].parent].pool = mimg[i].pool

\* Lines 2508-2524: with the relaxed check the parent must have journaling;
\* otherwise its mirror record is read and only -ENOENT rejects.
parent_check_r(i, relax, res) ==
  IF mimg[i].parent = "none" THEN OK
  ELSE IF relaxed_parent_check(i, relax)
  THEN (IF ~mimg[mimg[i].parent].journaling THEN "EINVAL" ELSE OK)
  ELSE IF mirror_image_get_r(mimg[i].parent, res) = "ENOENT" THEN "EINVAL"
  ELSE OK

\* Lines 2504-2525.
EnableParent ==
  /\ mi.pc = "en_parent"
  /\ LET i == mi.image
         reads == mimg[i].parent # "none"
                    /\ ~relaxed_parent_check(i, mi.relax)
     IN \E res \in (IF reads THEN StoreResults ELSE {OK}) :
          LET r == parent_check_r(i, mi.relax, res)
          IN /\ faults' = Charge(res)
             /\ mi' = IF IsErr(r) THEN MiReturn(r)
                      ELSE [mi EXCEPT !.pc = "en_internal"]
  /\ UNCHANGED <<mirror_mode, mimg, peers, ms>>
  /\ UNCHANGED notImage

\* Lines 130-150 and 2527-2531: an image without journaling is refused;
\* mirror::EnableRequest writes the record as enabled.
EnableInternal ==
  /\ mi.pc = "en_internal"
  /\ LET i == mi.image IN
     \E res \in (IF mimg[i].journaling THEN StoreResults ELSE {OK}) :
       LET r == IF ~mimg[i].journaling THEN "EINVAL" ELSE res
       IN /\ faults' = Charge(res)
          /\ mimg' = IF r = OK THEN [mimg EXCEPT ![i].state = "enabled"]
                     ELSE mimg
          /\ mi' = MiReturn(r)
  /\ UNCHANGED <<mirror_mode, peers, ms>>
  /\ UNCHANGED notImage

\* Lines 2534-2555: mirror_image_disable(ictx, force).
MirrorImageDisable(i, force) ==
  /\ mi.pc = "idle"
  /\ mimg[i].pool = "p1"
  /\ \E res \in StoreResults :
       LET call == [IdleImageCall EXCEPT !.op = "disable", !.image = i,
                                         !.force = force,
                                         !.before = mimg[i].state]
           r == IF IsErr(res) THEN res ELSE mirror_mode_check(mirror_mode)
       IN /\ faults' = Charge(res)
          /\ mi' = IF IsErr(r) THEN [call EXCEPT !.pc = "done", !.r = r]
                   ELSE [call EXCEPT !.pc = "dis_get"]
  /\ UNCHANGED <<mirror_mode, mimg, peers, ms>>
  /\ UNCHANGED notImage

\* Lines 2557-2571: an image without a mirror record is left alone.
DisableGet ==
  /\ mi.pc = "dis_get"
  /\ \E res \in StoreResults :
       LET r == mirror_image_get_r(mi.image, res)
       IN /\ faults' = Charge(res)
          /\ mi' = IF r = "ENOENT" THEN MiReturn(OK)
                   ELSE IF IsErr(r) THEN MiReturn(r)
                   ELSE [mi EXCEPT !.pc = "dis_mark"]
  /\ UNCHANGED <<mirror_mode, mimg, peers, ms>>
  /\ UNCHANGED notImage

\* Lines 2572-2577: the record is marked disabling.
DisableMark ==
  /\ mi.pc = "dis_mark"
  /\ \E res \in StoreResults :
       /\ faults' = Charge(res)
       /\ mimg' = IF res = OK
                  THEN [mimg EXCEPT ![mi.image].state = "disabling"]
                  ELSE mimg
       /\ mi' = IF IsErr(res) THEN MiReturn(res)
                ELSE [mi EXCEPT !.pc = "dis_children", !.marked = TRUE]
  /\ UNCHANGED <<mirror_mode, peers, ms>>
  /\ UNCHANGED notImage

\* A failure that returns without asking for the rollback.
disable_failed_no_rollback(r) == MiReturn(r)

\* Lines 2600-2601, 2611-2613, 2619-2621 and 2630-2631: a failure after
\* the mark sets rollback before it returns.
disable_failed(r) == [mi EXCEPT !.pc = "dis_rollback", !.r = r]

\* Lines 2591-2626: no clone of the image may have a mirror record,
\* whatever force is.
DisableChildren ==
  /\ mi.pc = "dis_children"
  /\ \E res \in StoreResults, failing \in ChildCheckOps(mi.image) :
       LET r == children_check_r(mi.image, failing, res)
       IN /\ faults' = Charge(res)
          /\ mi' = IF IsErr(r) THEN disable_failed(r)
                   ELSE [mi EXCEPT !.pc = "dis_internal"]
  /\ UNCHANGED <<mirror_mode, mimg, peers, ms>>
  /\ UNCHANGED notImage

\* Lines 2628-2632 and 152-167: mirror::DisableRequest removes the record.
DisableInternal ==
  /\ mi.pc = "dis_internal"
  /\ \E res \in StoreResults :
       /\ faults' = Charge(res)
       /\ mimg' = IF res = OK THEN mirror_image_removed(mi.image) ELSE mimg
       /\ mi' = IF IsErr(res)
                THEN [disable_failed(res) EXCEPT !.teardown = TRUE]
                ELSE [MiReturn(OK) EXCEPT !.teardown = TRUE]
  /\ UNCHANGED <<mirror_mode, peers, ms>>
  /\ UNCHANGED notImage

\* Lines 2579-2589: the record is written back as enabled; a failure of
\* that write is logged only.
DisableRollback ==
  /\ mi.pc = "dis_rollback"
  /\ \E res \in StoreResults :
       /\ faults' = Charge(res)
       /\ mimg' = IF res = OK
                  THEN [mimg EXCEPT ![mi.image].state = "enabled"]
                  ELSE mimg
       /\ mi' = [MiReturn(mi.r) EXCEPT !.rolled = (res = OK)]
  /\ UNCHANGED <<mirror_mode, peers, ms>>
  /\ UNCHANGED notImage

\* The caller takes the result.
ImageCallReturn ==
  /\ mi.pc = "done"
  /\ mi' = IdleImageCall
  /\ UNCHANGED <<mirror_mode, faults, mimg, peers, ms>>
  /\ UNCHANGED notImage

\* ------------------------------------------- promote, demote and resync
\* The image whose journal is promoted and demoted, and the handle that
\* calls; the other handle of the lock part is another client of the image.
JImage == "i1"

JHandle == "h1"

\* Journal<>::LOCAL_MIRROR_UUID, ORPHAN_MIRROR_UUID, and the uuid of a
\* remote cluster.
LOCAL_MIRROR_UUID == "local"
ORPHAN_MIRROR_UUID == "orphan"
TagOwners == {LOCAL_MIRROR_UUID, ORPHAN_MIRROR_UUID, "remote"}

JournalOps == {"promote", "demote", "resync"}

\* blocked is the request-block state of the handle's exclusive lock.
\* owner is the tag owner the call read, trace the lock and journal steps
\* the call has taken, wrote that its journal operation succeeded, held0
\* that the handle owned the lock when the call began, unreleased that a
\* release the call issued failed.
IdleJournalCall == [pc |-> "idle", op |-> "none", force |-> FALSE, r |-> OK,
                    blocked |-> FALSE, owner |-> "none", trace |-> <<>>,
                    wrote |-> FALSE, held0 |-> FALSE, unreleased |-> FALSE]

JcReturn(r) == [jc EXCEPT !.pc = "done", !.r = r]

\* Lines 2640-2643, 2683-2686 and 2766-2769: the call begins with
\* refresh_if_required.
JournalCall(op, force) ==
  /\ jc.pc = "idle"
  /\ lk[JHandle].pc = "idle"
  /\ \E res \in StoreResults :
       LET call == [IdleJournalCall EXCEPT !.op = op, !.force = force,
                                           !.held0 = lk[JHandle].owner]
       IN /\ faults' = Charge(res)
          /\ jc' = IF IsErr(res) THEN [call EXCEPT !.pc = "done", !.r = res]
                   ELSE [call EXCEPT !.pc = "validate"]
  /\ UNCHANGED <<jr, locker, lk>>
  /\ UNCHANGED notJournal

\* Lines 113-128.
validate_mirroring_enabled(i, res) ==
  LET r == mirror_image_get_r(i, res)
  IN IF IsErr(r) /\ r # "ENOENT" THEN r
     ELSE IF mimg[i].state # "enabled" THEN "EINVAL"
     ELSE OK

\* Lines 2645-2648, 2688-2691 and 2771-2774.
JournalValidate ==
  /\ jc.pc = "validate"
  /\ \E res \in StoreResults :
       LET r == validate_mirroring_enabled(JImage, res)
       IN /\ faults' = Charge(res)
          /\ jc' = IF IsErr(r) THEN JcReturn(r) ELSE [jc EXCEPT !.pc = "tag"]
  /\ UNCHANGED <<jr, locker, lk>>
  /\ UNCHANGED notJournal

\* A tag check that lets a promotion take the tag from a remote owner
\* whatever force is.
promote_check_takes_over(owner, force) ==
  IF owner = LOCAL_MIRROR_UUID THEN "EINVAL" ELSE "promote"

\* Lines 2659-2665; "promote" stands for going on to Journal<>::promote.
promote_check(owner, force) ==
  IF owner = LOCAL_MIRROR_UUID THEN "EINVAL"
  ELSE IF owner # ORPHAN_MIRROR_UUID /\ ~force THEN "EBUSY"
  ELSE "promote"

\* Lines 2701-2710; "block" stands for going on to block_requests.
demote_check(is_primary, has_lock) ==
  IF ~is_primary THEN "EINVAL"
  ELSE IF ~has_lock THEN "EINVAL"
  ELSE "block"

\* A check that lets the primary ask for a resync of itself.
resync_check_any_owner(owner) == "resync"

\* Lines 2782-2786; "resync" stands for going on to request_resync.
resync_check(owner) ==
  IF owner = LOCAL_MIRROR_UUID THEN "EINVAL" ELSE "resync"

\* What the call decides once it has read the tag owner.
tag_check(op, owner, force) ==
  IF op = "promote" THEN promote_check(owner, force)
  ELSE IF op = "demote"
  THEN demote_check(owner = LOCAL_MIRROR_UUID, exclusive_lock)
  ELSE resync_check(owner)

\* Lines 2653-2665, 2693-2719 and 2776-2786: Journal<>::get_tag_owner or
\* is_tag_owner reads the tag owner from the journal; demote then blocks
\* the requests of peers (line 2714).
JournalTagOwner ==
  /\ jc.pc = "tag"
  /\ \E res \in StoreResults :
       LET c == tag_check(jc.op, jr.tag_owner, jc.force)
       IN /\ faults' = Charge(res)
          /\ jc' = IF IsErr(res) THEN JcReturn(res)
                   ELSE IF c = "block"
                   THEN [jc EXCEPT !.pc = "dm_request", !.blocked = TRUE,
                                   !.owner = jr.tag_owner,
                                   !.trace = Append(@, "block")]
                   ELSE IF c \in {"promote", "resync"}
                   THEN [jc EXCEPT !.pc = c, !.owner = jr.tag_owner]
                   ELSE [JcReturn(c) EXCEPT !.owner = jr.tag_owner]
  /\ UNCHANGED <<jr, locker, lk>>
  /\ UNCHANGED notJournal

\* Lines 2667-2676: Journal<>::promote makes the local replica the owner of
\* the tag.
JournalPromote ==
  /\ jc.pc = "promote"
  /\ \E res \in StoreResults :
       /\ faults' = Charge(res)
       /\ jr' = IF res = OK THEN [jr EXCEPT !.tag_owner = LOCAL_MIRROR_UUID]
                ELSE jr
       /\ jc' = [JcReturn(res) EXCEPT !.wrote = (res = OK),
                                      !.trace = Append(@, "promote")]
  /\ UNCHANGED <<locker, lk>>
  /\ UNCHANGED notJournal

\* Lines 2788-2794: Journal<>::request_resync flags the journal.
JournalResync ==
  /\ jc.pc = "resync"
  /\ \E res \in StoreResults :
       /\ faults' = Charge(res)
       /\ jr' = IF res = OK THEN [jr EXCEPT !.resync = TRUE] ELSE jr
       /\ jc' = [JcReturn(res) EXCEPT !.wrote = (res = OK),
                                      !.trace = Append(@, "resync")]
  /\ UNCHANGED <<locker, lk>>
  /\ UNCHANGED notJournal

\* Lines 2729-2736.
demote_lock_check(r, has_lock, is_lock_owner) ==
  IF IsErr(r) THEN r
  ELSE IF ~has_lock \/ ~is_lock_owner THEN "EROFS"
  ELSE OK

\* Lines 2721-2742: request_lock completes as for lock_acquire, at once for
\* a handle that owns the lock; the call goes on only as the lock owner,
\* and otherwise returns through the unblock alone.
DemoteRequestLock ==
  /\ jc.pc = "dm_request"
  /\ LET h == JHandle
         mine == lk[h].owner
     IN \E res \in (IF mine THEN {OK} ELSE StoreResults) :
          LET granted == mine \/ (res = OK /\ locker = "none")
              r == demote_lock_check(res, exclusive_lock, granted)
          IN /\ faults' = Charge(res)
             /\ locker' = IF granted THEN h ELSE locker
             /\ lk' = [lk EXCEPT ![h].owner = granted,
                                 ![h].held = @ /\ granted]
             /\ jc' = IF IsErr(r)
                      THEN [jc EXCEPT !.pc = "dm_unblock", !.r = r,
                              !.trace = IF granted THEN Append(@, "lock")
                                        ELSE @]
                      ELSE [jc EXCEPT !.pc = "dm_demote",
                                      !.trace = Append(@, "lock")]
  /\ UNCHANGED jr
  /\ UNCHANGED notJournal

\* A second check that does not ask the journal who owns the tag.
demote_journal_check_any_owner(has_journal, is_tag_owner) ==
  IF ~has_journal THEN "EINVAL" ELSE OK

\* Lines 2745-2751.
demote_journal_check(has_journal, is_tag_owner) ==
  IF ~has_journal THEN "EINVAL"
  ELSE IF ~is_tag_owner THEN "EINVAL"
  ELSE OK

\* Lines 2744-2759: Journal::demote leaves the tag without an owner.
DemoteJournal ==
  /\ jc.pc = "dm_demote"
  /\ LET c == demote_journal_check(mimg[JImage].journaling,
                                   jr.tag_owner = LOCAL_MIRROR_UUID)
     IN \E res \in (IF c = OK THEN StoreResults ELSE {OK}) :
          LET r == IF IsErr(c) THEN c ELSE res
          IN /\ faults' = Charge(res)
             /\ jr' = IF r = OK
                      THEN [jr EXCEPT !.tag_owner = ORPHAN_MIRROR_UUID]
                      ELSE jr
             /\ jc' = [jc EXCEPT !.pc = "dm_release", !.r = r,
                                 !.wrote = (r = OK),
                                 !.trace = IF c = OK THEN Append(@, "demote")
                                           ELSE @]
  /\ UNCHANGED <<locker, lk>>
  /\ UNCHANGED notJournal

\* Lines 2738-2742: the scope exit releases the lock and waits; what the
\* release returned is not looked at. A failed release leaves the handle
\* as it was, as for lock_release.
DemoteRelease ==
  /\ jc.pc = "dm_release"
  /\ LET h == JHandle IN
     \E res \in StoreResults :
       /\ faults' = Charge(res)
       /\ locker' = IF res = OK /\ locker = h THEN "none" ELSE locker
       /\ lk' = [lk EXCEPT ![h].owner = IF res = OK THEN FALSE ELSE @,
                           ![h].held = IF res = OK THEN FALSE ELSE @]
       /\ jc' = [jc EXCEPT !.pc = "dm_unblock",
                           !.unreleased = IsErr(res),
                           !.trace = Append(@, "release")]
  /\ UNCHANGED jr
  /\ UNCHANGED notJournal

\* Lines 2715-2719: the scope exit unblocks the requests of peers, and the
\* call returns.
DemoteUnblock ==
  /\ jc.pc = "dm_unblock"
  /\ jc' = [jc EXCEPT !.pc = "done",
                      !.blocked = IF exclusive_lock THEN FALSE ELSE @,
                      !.trace = IF exclusive_lock THEN Append(@, "unblock")
                                ELSE @]
  /\ UNCHANGED <<jr, locker, lk, faults>>
  /\ UNCHANGED notJournal

\* The caller takes the result of the call.
JournalReturn ==
  /\ jc.pc = "done"
  /\ jc' = IdleJournalCall
  /\ UNCHANGED <<jr, locker, lk, faults>>
  /\ UNCHANGED notJournal

\* The other client of the image, holding the exclusive lock, demotes it.
OtherDemote ==
  /\ locker \notin {"none", JHandle}
  /\ jr.tag_owner = LOCAL_MIRROR_UUID
  /\ jr' = [jr EXCEPT !.tag_owner = ORPHAN_MIRROR_UUID]
  /\ UNCHANGED <<jc, locker, lk, faults>>
  /\ UNCHANGED notJournal

\* A remote cluster takes the tag that has no owner, or gives its own up.
RemoteTagChange ==
  /\ jr.tag_owner # LOCAL_MIRROR_UUID
  /\ jr' = [jr EXCEPT !.tag_owner = IF @ = ORPHAN_MIRROR_UUID THEN "remote"
                                    ELSE ORPHAN_MIRROR_UUID]
  /\ UNCHANGED <<jc, locker, lk, faults>>
  /\ UNCHANGED notJournal

\* ------------------------------------------------------ create, get_size
\* created is the size each image was last asked to be created with by
\* create(), -1 when it never was.
IdleSizeCall == [pc |-> "idle", op |-> "none", image |-> "none", r |-> OK,
                 size |-> 0, created |-> [c \in Clients |-> -1]]

\* Lines 952-1010: create(io_ctx, imgname, size, opts, "", "", false) of a
\* format 2 image without features.
Create(c, size) ==
  /\ gs.pc = "idle"
  /\ cl[c].pc = "idle"
  /\ \E res \in StoreResults :
       LET r == IF detect_format(c) # "ENOENT" THEN "EEXIST"
                ELSE create_request_r(c, res)
       IN /\ faults' = Charge(res)
          /\ img' = IF r = OK THEN CreateRequest(c, size, {}, "p1") ELSE img
          /\ gs' = [gs EXCEPT !.pc = "done", !.op = "create", !.image = c,
                              !.r = r, !.size = size,
                              !.created[c] = IF r = OK THEN size ELSE @]
  /\ UNCHANGED <<prot, snapExists, parent, children, watchers, mirror_mode,
                 cl, un>>
  /\ UNCHANGED notSize

\* ImageCtx::get_image_size(CEPH_NOSNAP): the size in the header the handle
\* has read.
get_image_size(c) == img[c].size

\* Lines 1324-1332: get_size(ictx, &size) on a handle of image c.
GetSize(c) ==
  /\ gs.pc = "idle"
  /\ img[c].hdr
  /\ \E res \in StoreResults :
       /\ faults' = Charge(res)
       /\ gs' = [gs EXCEPT !.pc = "done", !.op = "get_size", !.image = c,
                           !.r = res,
                           !.size = IF res = OK THEN get_image_size(c) ELSE 0]
  /\ UNCHANGED <<prot, snapExists, parent, children, img, watchers,
                 mirror_mode, cl, un>>
  /\ UNCHANGED notSize

\* The caller takes the result.
SizeReturn ==
  /\ gs.pc = "done"
  /\ gs' = [IdleSizeCall EXCEPT !.created = gs.created]
  /\ UNCHANGED <<prot, snapExists, parent, children, img, watchers,
                 mirror_mode, faults, cl, un>>
  /\ UNCHANGED notSize

\* ------------------------------------------------------------------ copy
\* Offsets at which copy() reads a chunk of a source of the given size.
ChunkOffsets(size) == {o \in 0..(MaxSize - 1) : o % StripePeriod = 0 /\ o < size}

\* firstErr is the result of the first chunk operation that failed, late
\* the number of reads sent after it; chunks are the ranges <<offset,
\* length>> read so far, in the order they were sent, ended the offsets of
\* the chunks whose slot was given back, and twice records that a slot was
\* given back a second time.
IdleCopy == [pc |-> "idle", offset |-> 0, m_current |-> 0, m_ret |-> OK,
             r |-> OK, reading |-> {}, writing |-> {}, issued |-> {},
             progress |-> <<>>, firstErr |-> OK, late |-> 0,
             chunks |-> <<>>, ended |-> {}, twice |-> FALSE]

\* Errors a read or write of a chunk can complete with, and the outcomes of
\* one chunk operation.
ChunkErrors == TransportErrors \cup {"EIO"}

ChunkResults == IF faults > 0 THEN {OK} \cup ChunkErrors ELSE {OK}

\* The completion of a chunk operation with result r, as the caller of
\* copy() would note it.
Noted(c, r) == [c EXCEPT !.firstErr = IF IsErr(r) /\ @ = OK THEN r ELSE @]

\* A read buffer that is never taken to be zero.
is_zero_ignored(o) == FALSE

\* Line 2026: bufferlist::is_zero on the chunk read at offset o.
is_zero(o) == src.zero[o]

\* SimpleThrottle::end_op: the slot is freed and the first error kept.
end_op(c, r) ==
  [c EXCEPT !.m_current = @ - 1,
            !.m_ret = IF IsErr(r) /\ @ = OK THEN r ELSE @]

\* Lines 2048-2063: copy(src, dest, prog_ctx).
CopyBegin ==
  /\ cp.pc = "idle"
  /\ cp' = IF src.dest_size < src.size
           THEN [cp EXCEPT !.pc = "done", !.r = "EINVAL"]
           ELSE [cp EXCEPT !.pc = "metadata"]
  /\ UNCHANGED <<src, faults>>
  /\ UNCHANGED notCopy

\* Lines 2067-2077: the metadata pairs of the source are copied.
CopyMetadata ==
  /\ cp.pc = "metadata"
  /\ \E res \in MetadataListResults :
       /\ faults' = Charge(res)
       /\ cp' = IF metadata_list_failed(res)
                THEN [cp EXCEPT !.pc = "done", !.r = res]
                ELSE [cp EXCEPT !.pc = "loop"]
  /\ UNCHANGED src
  /\ UNCHANGED notCopy

\* A loop that goes on sending reads whatever has failed.
copy_loop_step_unaware(offset, src_size, pending_error) ==
  IF offset < src_size THEN "start" ELSE "wait"

\* Lines 2083-2086 and 2098: the loop test and the test for a pending
\* error; "start" stands for sending the next read, "wait" for
\* wait_for_ret.
copy_loop_step(offset, src_size, pending_error) ==
  IF offset < src_size /\ ~pending_error THEN "start" ELSE "wait"

\* Lines 2083-2086: the loop test and the test for a pending error.
CopyLoop ==
  /\ cp.pc = "loop"
  /\ cp' = [cp EXCEPT !.pc = copy_loop_step(cp.offset, src.size,
                                            cp.m_ret # OK)]
  /\ UNCHANGED <<src, faults>>
  /\ UNCHANGED notCopy

\* A chunk that is always a full stripe period long.
chunk_len_full(offset, src_size) == StripePeriod

\* Line 2088.
chunk_len(offset, src_size) ==
  IF StripePeriod < src_size - offset THEN StripePeriod
  ELSE src_size - offset

\* The slot of the chunk at offset o has been given back.
Ended(c, o) ==
  [c EXCEPT !.ended = @ \cup {o}, !.twice = @ \/ o \in c.ended]

\* Lines 2088-2095: C_CopyRead's constructor waits for a throttle slot, the
\* read is sent and the progress reported.
CopyStartRead ==
  /\ cp.pc = "start"
  /\ cp.m_current < concurrent_management_ops
  /\ cp' = [cp EXCEPT !.pc = "loop",
                      !.m_current = @ + 1,
                      !.reading = @ \cup {cp.offset},
                      !.late = IF cp.firstErr # OK THEN @ + 1 ELSE @,
                      !.progress = <<cp.offset, src.size>>,
                      !.chunks = Append(@, <<cp.offset,
                                             chunk_len(cp.offset, src.size)>>),
                      !.offset = @ + StripePeriod]
  /\ UNCHANGED <<src, faults>>
  /\ UNCHANGED notCopy

\* Lines 2016-2039: C_CopyRead::finish.
CopyReadFinish(o) ==
  /\ o \in cp.reading
  /\ \E res \in ChunkResults :
       /\ faults' = Charge(res)
       /\ cp' = IF IsErr(res) \/ is_zero(o)
                THEN [Ended(end_op(Noted(cp, res), res), o)
                        EXCEPT !.reading = @ \ {o}]
                ELSE [cp EXCEPT !.reading = @ \ {o},
                                !.writing = @ \cup {o},
                                !.issued = @ \cup {o}]
  /\ UNCHANGED src
  /\ UNCHANGED notCopy

\* Lines 2000-2003: C_CopyWrite::finish.
CopyWriteFinish(o) ==
  /\ o \in cp.writing
  /\ \E res \in ChunkResults :
       /\ faults' = Charge(res)
       /\ cp' = [Ended(end_op(Noted(cp, res), res), o)
                  EXCEPT !.writing = @ \ {o}]
  /\ UNCHANGED src
  /\ UNCHANGED notCopy

\* Lines 2085 and 2098-2101: wait_for_ret returns when no operation is
\* outstanding; the final progress is reported on success.
CopyWait ==
  /\ cp.pc = "wait"
  /\ cp.m_current = 0
  /\ cp' = [cp EXCEPT !.pc = "done", !.r = cp.m_ret,
                      !.progress = IF cp.m_ret = OK
                                   THEN <<src.size, src.size>> ELSE @]
  /\ UNCHANGED <<src, faults>>
  /\ UNCHANGED notCopy

\* --------------------------------------------------------------- clip_io
\* Values of a uint64_t, with WordBits bits in place of 64.
Word == 2 ^ WordBits

Words == 0..(Word - 1)

\* len0 is the length the caller passed, len the length clip_io leaves.
IdleIo == [pc |-> "idle", off |-> 0, len0 |-> 0, len |-> 0,
           image_size |-> 0, snap_exists |-> TRUE, r |-> OK]

\* Lines 2375-2397: the result and the length left in *len. The sum of
\* line 2394 is a sum of uint64_t.
clip_io(off, len, image_size, snap_exists) ==
  IF ~snap_exists THEN [r |-> "ENOENT", len |-> len]
  ELSE IF len = 0 THEN [r |-> OK, len |-> len]
  ELSE IF off >= image_size THEN [r |-> "EINVAL", len |-> len]
  ELSE IF (off + len) % Word > image_size
  THEN [r |-> OK, len |-> (image_size - off) % Word]
  ELSE [r |-> OK, len |-> len]

\* Lines 2375-2397: clip_io(ictx, off, &len).
ClipIo ==
  /\ io.pc = "idle"
  /\ LET out == clip_io(io.off, io.len0, io.image_size, io.snap_exists)
     IN io' = [io EXCEPT !.pc = "done", !.r = out.r, !.len = out.len]
  /\ UNCHANGED notIo

\* ------------------------------------------------------ specifications
\* Parent images: a format 1 image has no features, and only an image with
\* layering can have a protected snapshot. size is the size of snapshot P.
Parents ==
  {p \in [features : SUBSET RBD_FEATURES_ALL, old_format : BOOLEAN,
          primary : BOOLEAN, meta : BOOLEAN, size : {MaxSize}] :
     /\ p.old_format => p.features = {} /\ ~p.meta
     /\ RBD_FEATURE_JOURNALING \notin p.features => p.primary}

InitNoLock ==
  /\ exclusive_lock = TRUE
  /\ blacklist_on_break_lock = FALSE
  /\ locker = "none"
  /\ blacklist = {}
  /\ lk = [h \in Handles |-> IdleHandle]

InitNoJournal ==
  /\ gs = IdleSizeCall
  /\ mirror_uuid = 0
  /\ jr = [tag_owner |-> LOCAL_MIRROR_UUID, resync |-> FALSE]
  /\ jc = IdleJournalCall

InitNoMirror ==
  /\ mimg = [i \in MImages |-> NoMirrorImage]
  /\ peers = FALSE
  /\ ms = IdleModeSet
  /\ mi = IdleImageCall
  /\ InitNoJournal

InitNoPools == pool_tier = [p \in Pools |-> "base"]

InitNoIo == io = IdleIo

InitNoCopy ==
  /\ InitNoPools
  /\ InitNoIo
  /\ src = [size |-> 0, dest_size |-> 0, zero |-> [o \in ChunkOffsets(MaxSize) |-> TRUE]]
  /\ cp = IdleCopy

InitStore ==
  /\ InitNoLock
  /\ InitNoMirror
  /\ InitNoCopy
  /\ snapExists = TRUE
  /\ children = [p \in Pools |-> {}]
  /\ img = [c \in Clients |-> NoImage]
  /\ watchers = [c \in Clients |-> 0]
  /\ faults = MaxFaults
  /\ cl = [c \in Clients |-> IdleClient]
  /\ un = IdleUnprotect
  /\ sr = IdleSnapRemove

\* One client's clone and remove racing with unprotect, protect and
\* removal of the parent snapshot.
InitClone ==
  /\ InitStore
  /\ prot = "protected"
  /\ parent \in {p \in Parents : /\ RBD_FEATURE_LAYERING \in p.features
                                 /\ p.primary /\ p.meta}
  /\ mirror_mode = "pool"

RaceArgs == {a \in CloneArgs : /\ a.snap /\ a.format = 0 /\ ~a.featOpt
                               /\ a.feat = {} /\ ~a.nonPrimary}

CloneSteps(c) ==
  \/ CloneValidate(c) \/ CloneCreate(c) \/ CloneOpen(c)
  \/ CloneSetParent(c) \/ CloneAddChild(c) \/ CloneRefresh(c)
  \/ CloneMetadata(c) \/ CloneMirror(c) \/ CloneClose(c)
  \/ CloneErrRemoveChild(c) \/ CloneErrCloseChild(c)

RemoveSteps(c) ==
  \/ RemoveBegin(c) \/ RemoveOpen(c) \/ RemoveChecks(c) \/ RemoveTrim(c)
  \/ RemoveRemoveChild(c) \/ RemoveMirror(c) \/ RemoveHeader(c)
  \/ RemoveGetId(c) \/ RemoveAux(c) \/ RemoveIdObj(c) \/ RemoveDirEntry(c)
  \/ Forget(c)

UnprotectSteps ==
  \/ UnprotectBegin \/ (\E p \in Pools : UnprotectScan(p))
  \/ UnprotectFinish \/ UnprotectForget

NextClone ==
  \/ \E a \in RaceArgs : CloneBegin("c1", a)
  \/ CloneSteps("c1")
  \/ RemoveSteps("c1")
  \/ UnprotectSteps
  \/ SnapProtect
  \/ SnapRemove

SpecClone == InitClone /\ [][NextClone]_vars

\* Two clients cloning the same protected snapshot, each to a child of its
\* own in either pool, and removing the children.
InitIndex ==
  /\ InitStore
  /\ prot = "protected"
  /\ parent \in {p \in Parents : /\ p.features = {RBD_FEATURE_LAYERING}
                                 /\ p.primary /\ ~p.meta}
  /\ mirror_mode = "disabled"

NextIndex ==
  \E c \in Clients :
    \/ \E a \in RaceArgs : CloneBegin(c, a)
    \/ CloneSteps(c)
    \/ RemoveSteps(c)

SpecIndex == InitIndex /\ [][NextIndex]_vars

\* One client calling clone with every combination of arguments on every
\* kind of parent, whatever the state of the parent snapshot.
InitCloneArgs ==
  /\ InitStore
  /\ parent \in Parents
  /\ prot \in {"protected", "unprotecting", "unprotected"}
  /\ prot # "unprotected" => RBD_FEATURE_LAYERING \in parent.features
  /\ mirror_mode \in {"disabled", "image", "pool"}

WideArgs == {a \in CloneArgs : /\ ~a.featOpt => a.feat = {}
                               /\ a.pool = "p1"}

NextCloneArgs ==
  \/ \E a \in WideArgs : CloneBegin("c1", a)
  \/ CloneSteps("c1")
  \/ RemoveSteps("c1")
  \/ SnapRemove

SpecCloneArgs == InitCloneArgs /\ [][NextCloneArgs]_vars

\* Handles acquiring, releasing, inspecting and breaking the exclusive lock
\* of one image.
InitNoClone ==
  /\ prot = "protected"
  /\ snapExists = TRUE
  /\ parent \in {p \in Parents : p.features = {RBD_FEATURE_LAYERING} /\ p.meta}
  /\ children = [p \in Pools |-> {}]
  /\ img = [c \in Clients |-> NoImage]
  /\ watchers = [c \in Clients |-> 0]
  /\ cl = [c \in Clients |-> IdleClient]
  /\ un = IdleUnprotect
  /\ sr = IdleSnapRemove

InitLock ==
  /\ InitNoClone
  /\ InitNoMirror
  /\ InitNoCopy
  /\ mirror_mode = "disabled"
  /\ faults = MaxFaults
  /\ exclusive_lock \in BOOLEAN
  /\ blacklist_on_break_lock \in BOOLEAN
  /\ locker = "none"
  /\ blacklist = {}
  /\ lk = [h \in Handles |-> IdleHandle]

NextLock ==
  \E h \in Handles :
    \/ IsExclusiveLockOwner(h)
    \/ \E m \in LockModes : LockAcquire(h, m)
    \/ LockRequestDone(h)
    \/ LockAcquireFinish(h)
    \/ LockRelease(h)
    \/ LockReleaseDone(h)
    \/ LockGetOwners(h)
    \/ \E m \in LockModes, o \in Handles : LockBreak(h, m, o)
    \/ LockBreakGetLocker(h)
    \/ LockBreakBlacklist(h)
    \/ LockBreakBreak(h)
    \/ LockLost(h)
    \/ LockReturn(h)

SpecLock == InitLock /\ [][NextLock]_vars

\* Handle h1 breaks locks, by lock_break and by break_lock, while handle h2
\* acquires and releases the lock.
InitBreak ==
  /\ InitNoClone
  /\ InitNoMirror
  /\ InitNoCopy
  /\ mirror_mode = "disabled"
  /\ faults = MaxFaults
  /\ exclusive_lock = TRUE
  /\ blacklist_on_break_lock \in BOOLEAN
  /\ locker = "none"
  /\ blacklist = {}
  /\ lk = [h \in Handles |-> IdleHandle]

NextBreak ==
  \/ \E client \in BreakClients : BreakLock("h1", client)
  \/ BreakLockInfo("h1")
  \/ BreakLockBlacklist("h1")
  \/ BreakLockBreak("h1")
  \/ \E m \in LockModes, o \in Handles : LockBreak("h1", m, o)
  \/ LockBreakGetLocker("h1")
  \/ LockBreakBlacklist("h1")
  \/ LockBreakBreak("h1")
  \/ LockAcquire("h2", RBD_LOCK_MODE_EXCLUSIVE)
  \/ LockRequestDone("h2")
  \/ LockAcquireFinish("h2")
  \/ LockRelease("h2")
  \/ LockReleaseDone("h2")
  \/ LockLost("h2")
  \/ \E h \in Handles : LockReturn(h)

SpecBreak == InitBreak /\ [][NextBreak]_vars

\* One caller changing the mirror mode of a pool of images, some journaled,
\* one possibly a clone of the other.
MirrorParents ==
  {f \in [MImages -> MImages \cup {"none"}] :
     /\ \A i \in MImages : f[i] # i
     /\ \A i \in MImages : f[i] # "none" => f[f[i]] = "none"}

InitMirror ==
  /\ InitNoClone
  /\ InitNoLock
  /\ InitNoCopy
  /\ faults = MaxFaults
  /\ mirror_mode = "disabled"
  /\ peers \in BOOLEAN
  /\ \E j \in [MImages -> BOOLEAN], f \in MirrorParents :
       mimg = [i \in MImages |->
                 [journaling |-> j[i], state |-> "none", parent |-> f[i],
                  pool |-> "p1"]]
  /\ ms = IdleModeSet
  /\ mi = IdleImageCall
  /\ InitNoJournal

NextMirror ==
  \/ \E next \in MirrorModes \cup {"unknown"} : MirrorModeSet(next)
  \/ MmsPeerList
  \/ MmsModeGet
  \/ MmsUuidSet
  \/ MmsSetImageMode
  \/ MmsList
  \/ MmsEnableImage
  \/ MmsCheckImage
  \/ MmsDisableImage
  \/ MidMark
  \/ MidChildren
  \/ MidInternal
  \/ MidRollback
  \/ MmsCloseImage
  \/ MmsSetMode
  \/ MmsForget

SpecMirror == InitMirror /\ [][NextMirror]_vars

\* One copy of a source image of every size and content to a destination of
\* the same size, a smaller or a larger one.
CopySources ==
  {s \in [size : 0..MaxSize, dest_size : 0..MaxSize,
           zero : [ChunkOffsets(MaxSize) -> BOOLEAN]] :
     /\ s.dest_size \in {s.size - 1, s.size, MaxSize}
     /\ \A o \in ChunkOffsets(MaxSize) : o >= s.size => s.zero[o]}

InitCopy ==
  /\ InitNoClone
  /\ InitNoLock
  /\ InitNoMirror
  /\ mirror_mode = "disabled"
  /\ faults = MaxFaults
  /\ src \in CopySources
  /\ cp = IdleCopy
  /\ InitNoPools
  /\ InitNoIo

NextCopy ==
  \/ CopyBegin
  \/ CopyMetadata
  \/ CopyLoop
  \/ CopyStartRead
  \/ \E o \in ChunkOffsets(MaxSize) : CopyReadFinish(o)
  \/ \E o \in ChunkOffsets(MaxSize) : CopyWriteFinish(o)
  \/ CopyWait

\* One call of clip_io with every offset and length, on a handle of an
\* image of every size whose selected snapshot exists or is gone.
InitClip ==
  /\ InitNoClone
  /\ InitNoLock
  /\ InitNoMirror
  /\ mirror_mode = "disabled"
  /\ faults = MaxFaults
  /\ src = [size |-> 0, dest_size |-> 0,
            zero |-> [o \in ChunkOffsets(MaxSize) |-> TRUE]]
  /\ cp = IdleCopy
  /\ InitNoPools
  /\ \E off \in Words, len \in Words, size \in Words, s \in BOOLEAN :
       io = [IdleIo EXCEPT !.off = off, !.len0 = len, !.len = len,
                           !.image_size = size, !.snap_exists = s]

NextClip == ClipIo

SpecClip == InitClip /\ [][NextClip]_vars

\* Callers of remove(), with and without force, on a name without image
\* and on an image of every kind: with snapshots, in a group, with the exclusive lock feature and the
\* lock held elsewhere or free, with data objects, registered as a clone,
\* with a mirror record, with or without another watcher.
RemovableImages ==
  {i \in [dir : {TRUE}, idobj : {TRUE}, hdr : {TRUE}, parent : BOOLEAN,
           features : {{RBD_FEATURE_LAYERING}}, meta : {FALSE},
           mirror : BOOLEAN, pool : {"p1"}, size : {MaxSize},
           snaps : BOOLEAN, deep_flatten : {FALSE}, data : BOOLEAN,
           group : BOOLEAN, excl : BOOLEAN, locked : BOOLEAN] :
     i.locked => i.excl}

InitRemove ==
  /\ InitNoLock
  /\ InitNoMirror
  /\ InitNoCopy
  /\ snapExists = TRUE
  /\ prot = "protected"
  /\ parent \in {p \in Parents : p.features = {RBD_FEATURE_LAYERING}
                                 /\ p.meta /\ p.primary}
  /\ \E i \in RemovableImages :
       img = [c \in Clients |-> IF c = "c1" THEN i ELSE NoImage]
  /\ children = [p \in Pools |->
                   {c \in Clients : img[c].parent /\ img[c].pool = p}]
  /\ \E n \in 0..1 : watchers = [c \in Clients |-> IF c = "c1" THEN n ELSE 0]
  /\ mirror_mode = "disabled"
  /\ faults = MaxFaults
  /\ cl = [c \in Clients |-> IdleClient]
  /\ un = IdleUnprotect
  /\ sr = IdleSnapRemove

NextRemove ==
  \E c \in Clients :
    \/ \E force \in BOOLEAN : RemoveCall(c, force)
    \/ RemoveOpen(c)
    \/ RemoveChecks(c)
    \/ RemoveTrim(c)
    \/ RemoveRemoveChild(c)
    \/ RemoveMirror(c)
    \/ RemoveHeader(c)
    \/ RemoveGetId(c)
    \/ RemoveAux(c)
    \/ RemoveIdObj(c)
    \/ RemoveDirEntry(c)

SpecRemove == InitRemove /\ [][NextRemove]_vars

SpecCopy == InitCopy /\ [][NextCopy]_vars

\* The same with every completion delivered and the loop of copy() running
\* on: a step that can be taken is taken.
SpecCopyLive == SpecCopy /\ WF_vars(NextCopy)

\* One caller of snap_remove on the parent snapshot, whose clones may be
\* registered in either pool, racing with unprotect, protect and removal of
\* the snapshot by others.
InitSnap ==
  /\ InitNoLock
  /\ InitNoMirror
  /\ InitNoCopy
  /\ snapExists = TRUE
  /\ prot \in {"protected", "unprotecting", "unprotected"}
  /\ parent \in {p \in Parents : p.features = {RBD_FEATURE_LAYERING}
                                 /\ p.meta}
  /\ \E q \in Pools, has_child \in BOOLEAN :
       /\ has_child => prot # "unprotected"
       /\ children = [p \in Pools |->
                        IF has_child /\ p = q THEN {"c1"} ELSE {}]
       /\ img = [c \in Clients |->
                   IF has_child /\ c = "c1"
                   THEN [NoImage EXCEPT !.parent = TRUE, !.dir = TRUE,
                                        !.idobj = TRUE, !.hdr = TRUE,
                                        !.features = {RBD_FEATURE_LAYERING},
                                        !.pool = q]
                   ELSE NoImage]
  /\ watchers = [c \in Clients |-> 0]
  /\ mirror_mode = "disabled"
  /\ faults = MaxFaults
  /\ cl = [c \in Clients |-> IdleClient]
  /\ un = IdleUnprotect
  /\ sr = IdleSnapRemove

NextSnap ==
  \/ \E f \in SnapRemoveFlags, ns \in SnapNamespaces : SnapRemoveBegin(f, ns)
  \/ ListChildrenInfo
  \/ ListChildrenScan
  \/ FlattenChildren
  \/ FlattenPool
  \/ FlattenOpen
  \/ FlattenFlatten
  \/ FlattenRemoveChild
  \/ SnapRemoveIsProtected
  \/ SnapRemoveUnprotect
  \/ SnapRemoveUnprotectDone
  \/ SnapRemoveReread
  \/ SnapRemoveRequest
  \/ SnapRemoveReturn
  \/ UnprotectBegin
  \/ \E p \in Pools : UnprotectScan(p)
  \/ UnprotectFinish
  \/ sr.pc # "unprotect_wait" /\ UnprotectForget
  \/ SnapProtect
  \/ SnapRemove

SpecSnap == InitSnap /\ [][NextSnap]_vars

\* One caller of snap_remove on the parent snapshot while pools are
\* removed from the cluster. Each pool is its own base tier or a cache
\* tier; each clone is registered in a pool that is its own base tier,
\* with or without deep-flatten and snapshots of its own.
PoolTiers == {"base", "cache"}

ChildKinds == [pool : Pools, snaps : BOOLEAN, deep_flatten : BOOLEAN,
               is_child : BOOLEAN]

InitFlatten ==
  /\ InitNoLock
  /\ InitNoMirror
  /\ src = [size |-> 0, dest_size |-> 0,
            zero |-> [o \in ChunkOffsets(MaxSize) |-> TRUE]]
  /\ cp = IdleCopy
  /\ InitNoIo
  /\ snapExists = TRUE
  /\ prot = "protected"
  /\ parent \in {p \in Parents : p.features \subseteq {RBD_FEATURE_LAYERING}
                                 /\ p.meta /\ p.primary}
  /\ pool_tier \in [Pools -> PoolTiers]
  /\ \E k \in [Clients -> ChildKinds] :
       /\ \A c \in Clients : k[c].is_child => pool_tier[k[c].pool] = "base"
       /\ \A c \in Clients :
            k[c].is_child => RBD_FEATURE_LAYERING \in parent.features
       /\ \A c \in Clients :
            ~k[c].is_child => k[c] = [pool |-> "p1", snaps |-> FALSE,
                                      deep_flatten |-> FALSE,
                                      is_child |-> FALSE]
       /\ children = [p \in Pools |->
                        {c \in Clients : k[c].is_child /\ k[c].pool = p}]
       /\ img = [c \in Clients |->
                   IF k[c].is_child
                   THEN [NoImage EXCEPT !.parent = TRUE, !.dir = TRUE,
                           !.idobj = TRUE, !.hdr = TRUE,
                           !.features = {RBD_FEATURE_LAYERING},
                           !.pool = k[c].pool, !.snaps = k[c].snaps,
                           !.deep_flatten = k[c].deep_flatten]
                   ELSE NoImage]
  /\ watchers = [c \in Clients |-> 0]
  /\ mirror_mode = "disabled"
  /\ faults = MaxFaults
  /\ cl = [c \in Clients |-> IdleClient]
  /\ un = IdleUnprotect
  /\ sr = IdleSnapRemove

NextFlatten ==
  \/ \E f \in SnapRemoveFlags, ns \in SnapNamespaces : SnapRemoveBegin(f, ns)
  \/ ListChildrenInfo
  \/ ListChildrenScan
  \/ FlattenChildren
  \/ FlattenPool
  \/ FlattenOpen
  \/ FlattenFlatten
  \/ FlattenRemoveChild
  \/ SnapRemoveIsProtected
  \/ SnapRemoveUnprotect
  \/ SnapRemoveUnprotectDone
  \/ SnapRemoveReread
  \/ SnapRemoveRequest
  \/ \E p \in Pools : UnprotectScan(p)
  \/ UnprotectFinish
  \/ \E p \in Pools : PoolRemoved(p)

SpecFlatten == InitFlatten /\ [][NextFlatten]_vars

\* One caller enabling and disabling mirroring of the images of the first
\* pool; an image may be the clone of a snapshot of the other image, which
\* may live in the other pool and have a mirror record of its own.
MirrorStates == {"none", "enabled", "disabling"}

InitImage ==
  /\ InitNoClone
  /\ InitNoLock
  /\ InitNoCopy
  /\ faults = MaxFaults
  /\ mirror_mode \in MirrorModes
  /\ peers = FALSE
  /\ \E j \in [MImages -> BOOLEAN], f \in MirrorParents,
        pl \in [MImages -> Pools], st \in [MImages -> MirrorStates] :
       /\ \A i \in MImages : st[i] # "none" => j[i]
       /\ \A i \in MImages :
            pl[i] = "p1" /\ mirror_mode = "disabled" => st[i] = "none"
       /\ \A i \in MImages :
            pl[i] = "p1" /\ mirror_mode = "pool" /\ j[i] => st[i] # "none"
       /\ mimg = [i \in MImages |->
                    [journaling |-> j[i], state |-> st[i], parent |-> f[i],
                     pool |-> pl[i]]]
  /\ ms = IdleModeSet
  /\ mi = IdleImageCall
  /\ InitNoJournal

NextImage ==
  \/ \E i \in MImages, relax \in BOOLEAN : MirrorImageEnable(i, relax)
  \/ EnableParent
  \/ EnableInternal
  \/ \E i \in MImages, force \in BOOLEAN : MirrorImageDisable(i, force)
  \/ DisableGet
  \/ DisableMark
  \/ DisableChildren
  \/ DisableInternal
  \/ DisableRollback
  \/ ImageCallReturn

SpecImage == InitImage /\ [][NextImage]_vars

\* One handle promoting, demoting and resyncing a journaled image while the
\* other client of the image takes and releases the exclusive lock and
\* the tag changes hands.
InitJournal ==
  /\ InitNoClone
  /\ InitNoCopy
  /\ faults = MaxFaults
  /\ mirror_mode = "image"
  /\ peers = TRUE
  /\ \E st \in MirrorStates :
       mimg = [i \in MImages |->
                 [journaling |-> TRUE, state |-> st, parent |-> "none",
                  pool |-> "p1"]]
  /\ ms = IdleModeSet
  /\ mi = IdleImageCall
  /\ mirror_uuid = 1
  /\ exclusive_lock \in BOOLEAN
  /\ blacklist_on_break_lock = FALSE
  /\ blacklist = {}
  /\ \E mine \in BOOLEAN :
       /\ mine => exclusive_lock
       /\ locker = IF mine THEN JHandle ELSE "none"
       /\ lk = [h \in Handles |->
                  [IdleHandle EXCEPT !.owner = mine /\ h = JHandle,
                                     !.held = mine /\ h = JHandle]]
  /\ \E o \in TagOwners : jr = [tag_owner |-> o, resync |-> FALSE]
  /\ jc = IdleJournalCall
  /\ gs = IdleSizeCall

NextJournal ==
  \/ \E op \in JournalOps, force \in BOOLEAN : JournalCall(op, force)
  \/ JournalValidate
  \/ JournalTagOwner
  \/ JournalPromote
  \/ JournalResync
  \/ DemoteRequestLock
  \/ DemoteJournal
  \/ DemoteRelease
  \/ DemoteUnblock
  \/ JournalReturn
  \/ OtherDemote
  \/ RemoteTagChange
  \/ LockAcquire("h2", RBD_LOCK_MODE_EXCLUSIVE)
  \/ LockRequestDone("h2")
  \/ LockAcquireFinish("h2")
  \/ LockRelease("h2")
  \/ LockReleaseDone("h2")
  \/ LockReturn("h2")

SpecJournal == InitJournal /\ [][NextJournal]_vars

\* One client cloning a snapshot of every size while images are created
\* with every size and their sizes read.
InitSize ==
  /\ InitStore
  /\ prot = "protected"
  /\ \E sz \in 0..MaxSize :
       parent = [features |-> {RBD_FEATURE_LAYERING}, old_format |-> FALSE,
                 primary |-> TRUE, meta |-> TRUE, size |-> sz]
  /\ mirror_mode = "disabled"

NextSize ==
  \/ \E a \in RaceArgs : CloneBegin("c1", a)
  \/ CloneSteps("c1")
  \/ RemoveSteps("c1")
  \/ \E size \in 0..MaxSize : Create("c2", size)
  \/ \E c \in Clients : GetSize(c)
  \/ SizeReturn

SpecSize == InitSize /\ [][NextSize]_vars

\* ================================================================ claims
CloneDone(c) == cl[c].pc = "done" /\ cl[c].op = "clone"

CloneOK(c) == CloneDone(c) /\ cl[c].r = OK

CloneFailedAt(c, steps) ==
  CloneDone(c) /\ IsErr(cl[c].r) /\ cl[c].failedStep \in steps

RemoveOK(c) == cl[c].pc = "done" /\ cl[c].op = "remove" /\ cl[c].r = OK

\* C1: in no reachable state has clone() returned success (with the child
\* not removed since) while the parent snapshot is unprotected, and a clone
\* that found the snapshot not protected at the re-validation fails.
Thm_C1 ==
  \A c \in Clients :
    /\ CloneOK(c) => prot # "unprotected"
    /\ CloneDone(c) /\ cl[c].reached >= 5 /\ ~cl[c].snap_protected
         => IsErr(cl[c].r)

\* C1 witness: clone has returned success while a concurrent unprotect is
\* scanning the child index.
Wit_C1 == CloneOK("c1") /\ un.pc = "scan" /\ prot = "unprotecting"

Orig_C3 ==
  \A g, h \in Handles : g # h => ~(lk[g].held /\ lk[h].held)

BreakDone(h) == lk[h].op = "break" /\ lk[h].pc = "done"

\* C4: a lock_break whose owner argument differs from the locker it read
\* returns -EBUSY having blacklisted and broken nothing; a break request is
\* only ever sent for the locker the caller named; and a step of lock_break
\* that takes the lock away takes it from the owner the caller named.
Thm_C4 ==
  [][ \A h \in Handles :
        /\ (BreakDone(h) /\ lk[h].address \notin {"none", lk[h].lock_owner}
               => /\ lk[h].r = "EBUSY"
                  /\ ~lk[h].blacklisted /\ ~lk[h].broke)'
        /\ (lk[h].pc \in {"brk_blacklist", "brk_break"}
               => lk[h].address = lk[h].lock_owner)'
        /\ lk[h].pc = "brk_get" /\ lk'[h].r = "EBUSY"
               => locker' = locker /\ blacklist' = blacklist
        /\ lk[h].pc = "brk_break" /\ lk'[h].pc = "done" /\ locker' # locker
               => locker = lk[h].lock_owner /\ locker' = "none" ]_vars

\* C4 witness: the owner changed after the caller learned its identity, and
\* the break with the stale identity has failed with -EBUSY.
Wit_C4 ==
  \E h \in Handles :
    /\ BreakDone(h) /\ lk[h].r = "EBUSY"
    /\ lk[h].lock_owner = lk[h].known
    /\ locker \notin {"none", lk[h].lock_owner}
    /\ locker = lk[h].address

ModeSetDone(from, to) ==
  ms.pc = "done" /\ ms.current = from /\ ms.next = to

AllZero == \A o \in ChunkOffsets(src.size) : src.zero[o]

\* C7: copy() writes no chunk whose content is zero, so none at all for an
\* all-zero source; it fails only on a destination smaller than the source
\* or on a store error; and on success the last progress reported is
\* (size, size).
Thm_C7 ==
  /\ \A o \in cp.issued : ~src.zero[o]
  /\ AllZero => cp.issued = {}
  /\ cp.pc = "done" =>
       /\ cp.r = OK => cp.progress = <<src.size, src.size>>
       /\ IsErr(cp.r) =>
            \/ cp.r = "EINVAL" /\ src.dest_size < src.size
            \/ cp.r \in ChunkErrors

\* C7 witness: an all-zero source of several chunks, the last one short,
\* has been copied.
Wit_C7 ==
  /\ cp.pc = "done" /\ cp.r = OK /\ AllZero
  /\ src.size > StripePeriod /\ src.size % StripePeriod # 0
  /\ cp.issued = {} /\ cp.progress = <<src.size, src.size>>

ClonePreconditions(c) ==
  LET a == cl[c].args IN
  /\ a.snap
  /\ a.format \in {0, 2}
  /\ ~parent.old_format
  /\ RBD_FEATURE_LAYERING \in parent.features
  /\ cl[c].snap_r = OK /\ cl[c].snap_protected
  /\ RBD_FEATURE_JOURNALING \in parent.features
       => parent.primary \/ a.nonPrimary

\* C9: clone() attempts the creation of the child only when every
\* precondition holds, and a call that does not get that far returns an
\* error having created and registered nothing.
Thm_C9 ==
  \A c \in Clients :
    /\ cl[c].pc = "create" => ClonePreconditions(c)
    /\ CloneDone(c) /\ cl[c].reached = 0
         => IsErr(cl[c].r) /\ cl[c].rm_r = "NONE"
    /\ cl[c].op = "clone" /\ cl[c].reached = 0 /\ cl[c].pc # "idle"
         => cl[c].pc \in {"validate", "create", "done"}

\* C9 witness: a non-primary journaled parent cloned with a non-primary
\* global image id reaches the creation of the child.
Wit_C9 ==
  /\ cl["c1"].pc = "create"
  /\ RBD_FEATURE_JOURNALING \in parent.features
  /\ ~parent.primary /\ cl["c1"].args.nonPrimary

\* C10: the feature set clone() creates the child with is the caller's, all
\* of it supported, when given, and the parent's otherwise; it has layering;
\* and a request with an unsupported bit or without layering creates nothing.
Thm_C10 ==
  \A c \in Clients :
    LET a == cl[c].args IN
    /\ cl[c].pc \in {"create", "open", "set_parent"} =>
         /\ cl[c].features = IF a.featOpt THEN a.feat ELSE parent.features
         /\ cl[c].features \subseteq RBD_FEATURES_ALL
         /\ RBD_FEATURE_LAYERING \in cl[c].features
    /\ cl[c].pc \in {"open", "set_parent"} =>
         img[c].hdr /\ img[c].features = cl[c].features
    /\ cl[c].op = "clone" /\ cl[c].pc \notin {"idle", "validate"}
         /\ RBD_FEATURE_LAYERING \notin
              (IF a.featOpt THEN a.feat ELSE parent.features)
         => CloneDone(c) /\ IsErr(cl[c].r) /\ cl[c].reached = 0
    /\ cl[c].op = "clone" /\ cl[c].pc \notin {"idle", "validate"}
         /\ a.featOpt /\ ~(a.feat \subseteq RBD_FEATURES_ALL)
         => CloneDone(c) /\ IsErr(cl[c].r) /\ cl[c].reached = 0

\* C10 witness: a child created with caller-specified features that differ
\* from the parent's.
Wit_C10 ==
  /\ cl["c1"].pc = "open"
  /\ cl["c1"].args.featOpt
  /\ img["c1"].features = {RBD_FEATURE_LAYERING}
  /\ parent.features = RBD_FEATURES_ALL

\* C11: whenever lock_acquire returns 0 without having sent a lock request,
\* the store has the handle as the locker of the image.
Orig_C11 ==
  [][ \A h \in Handles :
        lk[h].pc = "idle" /\ lk'[h].pc = "done" /\ lk'[h].op = "acquire"
          /\ lk'[h].r = OK
        => locker = h ]_vars

\* C12: lock_release called by a handle that is not the lock owner, or on
\* an image without an exclusive lock, returns an error at once and sends no
\* release to the store; a lock_release that returns 0 does so on the
\* completion of its store-side release, and then the handle is no longer
\* the owner and the store no longer has it as the locker.
Thm_C12 ==
  [][ \A h \in Handles :
        /\ lk[h].pc = "idle" /\ lk'[h].pc # "idle" /\ lk'[h].op = "release"
             /\ (~exclusive_lock \/ ~lk[h].owner)
           => /\ lk'[h].pc = "done"
              /\ IsErr(lk'[h].r)
              /\ lk'[h].attempts = 0
              /\ locker' = locker
        /\ lk[h].pc # "done" /\ lk'[h].pc = "done" /\ lk'[h].op = "release"
             /\ lk'[h].r = OK
           => /\ lk[h].pc = "rel_wait"
              /\ lk[h].owner
              /\ lk'[h].attempts = 1
              /\ ~lk'[h].owner
              /\ locker' # h ]_vars

\* A release by the owner has returned 0 and the store has no locker; the
\* other handle's release was refused without a store-side release.
Wit_C12 ==
  /\ lk["h1"].pc = "done" /\ lk["h1"].op = "release" /\ lk["h1"].r = OK
  /\ lk["h1"].attempts = 1 /\ locker = "none"
  /\ lk["h2"].pc = "done" /\ lk["h2"].op = "release"
  /\ lk["h2"].r = "EINVAL" /\ lk["h2"].attempts = 0

\* C13: a lock_release that returns a transport error has sent the release
\* to the store twice in that call.
Orig_C13 ==
  [][ \A h \in Handles :
        lk[h].pc = "rel_wait" /\ lk'[h].pc = "done"
          /\ lk'[h].r \in TransportErrors
        => lk'[h].attempts = 2 ]_vars

\* C14: a lock_break that reads no locker on the header, or whose break
\* finds the locker it read gone, returns 0, the store having answered, and
\* has blacklisted nobody.
Orig_C14 ==
  [][ \A h \in Handles :
        /\ lk'[h].pc = "done"
        /\ lk'[h].r \notin TransportErrors \cup {"EBLACKLISTED"}
        /\ \/ lk[h].pc = "brk_get" /\ locker = "none"
           \/ lk[h].pc = "brk_break" /\ locker # lk[h].address
        => lk'[h].r = OK /\ ~lk'[h].blacklisted ]_vars

\* C15: a step that deletes the snapshot finds it unprotected; a removal
\* request of snap_remove that finds the snapshot protected or unprotecting
\* leaves it in place and returns an error; and with the unprotect-first
\* flag a snapshot read as protected goes to the unprotect, the removal
\* request is reached only with the last read showing it unprotected, and,
\* when an unprotect was issued, only after that unprotect returned 0 and
\* the state was read again.
Thm_C15 ==
  [][ /\ snapExists /\ ~snapExists' => prot = "unprotected"
      /\ sr.pc = "remove" /\ sr'.pc = "done" /\ snapExists
           /\ prot # "unprotected"
         => snapExists' /\ IsErr(sr'.r)
      /\ sr.pc = "is_protected" /\ sr'.pc \notin {"is_protected", "done"}
           /\ prot # "unprotected" /\ RBD_SNAP_REMOVE_UNPROTECT \in sr.flags
         => sr'.pc = "unprotect"
      /\ sr.pc # "reread" /\ sr'.pc = "reread"
         => sr.pc = "unprotect_wait" /\ un.r = OK
      /\ (sr.pc = "remove" /\ RBD_SNAP_REMOVE_UNPROTECT \in sr.flags
           => /\ ~sr.is_protected
              /\ sr.unprotects > 0 => sr.reread)' ]_vars

\* snap_remove without the unprotect-first flag has returned an error for a
\* protected snapshot, which is still there.
Wit_C15 ==
  /\ sr.pc = "done" /\ sr.attempted /\ IsErr(sr.r)
  /\ RBD_SNAP_REMOVE_UNPROTECT \notin sr.flags
  /\ sr.r \notin TransportErrors
  /\ snapExists /\ prot = "protected"

\* C16: snap_remove with the unprotect-first flag issues an unprotect only
\* for a snapshot it read as protected, and goes straight to the removal
\* request for one it read as unprotected; a failed unprotect is returned
\* with no removal request sent and the snapshot in place; a snapshot read
\* as protected again after a successful unprotect ends the process, with no
\* result returned and no removal request sent.
Thm_C16 ==
  [][ /\ sr'.unprotects > sr.unprotects
         => sr.is_protected /\ RBD_SNAP_REMOVE_UNPROTECT \in sr.flags
      /\ sr.pc = "is_protected" /\ sr'.pc \notin {"is_protected", "done"}
           /\ prot = "unprotected"
         => sr'.pc = "remove" /\ sr'.unprotects = 0
      /\ sr.pc = "unprotect_wait" /\ sr'.pc # "unprotect_wait"
           /\ IsErr(un.r)
         => /\ sr'.pc = "done" /\ sr'.r = un.r /\ ~sr'.attempted
            /\ snapExists' = snapExists
      /\ sr.pc = "reread" /\ sr'.pc \notin {"reread", "done"}
           /\ prot # "unprotected"
         => sr'.pc = "aborted" /\ ~sr'.attempted /\ snapExists' = snapExists
      /\ sr'.pc = "aborted" /\ sr.pc # "aborted" => prot # "unprotected"
      /\ sr.pc = "aborted" => sr' = sr ]_vars

\* The unprotect of snap_remove succeeded, the snapshot was protected again
\* before the second read, and the process has aborted.
Wit_C16 ==
  /\ sr.pc = "aborted" /\ sr.unprotects = 1 /\ sr.reread
  /\ snapExists /\ prot = "protected"

\* An enable or disable call on an image has returned.
ImageCallDone(op) == mi.pc = "done" /\ mi.op = op

\* C17: no step taken while the pool is not in image mode, and no step of a
\* mirror_image_enable on an image without journaling, changes a mirror
\* record; a mirror_image_enable that returns 0 was made on a journaled
\* image in a pool in image mode and leaves the record enabled; in any other
\* mode, or without journaling, mirror_image_enable returns an error, and in
\* any other mode mirror_image_disable returns an error, with the record as
\* it was before the call.
Thm_C17 ==
  [][ /\ mirror_mode # "image" => mimg' = mimg
      /\ mi.pc # "idle" /\ mi.op = "enable" /\ ~mimg[mi.image].journaling
         => mimg' = mimg
      /\ (ImageCallDone("enable") /\ mi.r = OK
           => /\ mimg[mi.image].journaling
              /\ mirror_mode = "image"
              /\ mimg[mi.image].state = "enabled")'
      /\ (ImageCallDone("enable")
             /\ (mirror_mode # "image" \/ ~mimg[mi.image].journaling)
           => IsErr(mi.r) /\ mimg[mi.image].state = mi.before)'
      /\ (ImageCallDone("disable") /\ mirror_mode # "image"
           => /\ IsErr(mi.r) /\ ~mi.marked
              /\ mimg[mi.image].state = mi.before)' ]_vars

\* mirror_image_enable on a journaled image of a pool in pool mode has been
\* rejected.
Wit_C17 ==
  /\ ImageCallDone("enable") /\ mi.r = "EINVAL"
  /\ mirror_mode = "pool" /\ mimg[mi.image].journaling
  /\ mimg[mi.image].state = mi.before

\* C18: a mirror_image_enable on an image with a parent that has returned 0
\* found, under the relaxed check of a parent in the same pool, a parent
\* with journaling, and otherwise a parent with a mirror record.
Orig_C18 ==
  ImageCallDone("enable") /\ mimg[mi.image].parent # "none" /\ mi.r = OK
  => IF relaxed_parent_check(mi.image, mi.relax)
     THEN mimg[mimg[mi.image].parent].journaling
     ELSE mimg[mimg[mi.image].parent].state # "none"

\* Some clone of the image of the call has a mirror record.
MirroredClone == \E j \in MImages :
                   mimg[j].parent = mi.image /\ mimg[j].state # "none"

\* C19 as stated: with a mirrored clone and no store failure, a disable
\* that marked the record returns -EBUSY with the record enabled when not
\* forced, and has sent the disable request when forced.
Orig_C19 ==
  ImageCallDone("disable") /\ mi.marked /\ MirroredClone
    /\ faults = MaxFaults
  => IF mi.force THEN mi.teardown
     ELSE mi.r = "EBUSY" /\ mimg[mi.image].state = "enabled"

\* C19 amended: forced or not, a mirror_image_disable whose children check
\* completes while a clone of the image, in either pool, has a mirror record
\* goes to the rollback, with -EBUSY when the store answered; the disable
\* request is sent only when no clone has a mirror record; and a disable
\* that returns -EBUSY has sent no disable request and, its rollback write
\* having succeeded, leaves the record enabled.
Thm_C19 ==
  [][ /\ mi.pc = "dis_children" /\ mi'.pc # "dis_children" /\ MirroredClone
         => /\ mi'.pc = "dis_rollback"
            /\ faults' = faults => mi'.r = "EBUSY"
      /\ mi.pc # "idle" /\ mi'.teardown /\ ~mi.teardown => ~MirroredClone
      /\ (ImageCallDone("disable") /\ mi.r = "EBUSY"
           => /\ mi.marked /\ ~mi.teardown
              /\ mi.rolled => mimg[mi.image].state = "enabled")' ]_vars

\* A forced disable of an image with a mirrored clone in the other pool has
\* returned -EBUSY and the record is enabled again.
Wit_C19 ==
  /\ ImageCallDone("disable") /\ mi.force /\ mi.r = "EBUSY" /\ mi.rolled
  /\ mimg[mi.image].state = "enabled"
  /\ \E j \in MImages : /\ mimg[j].parent = mi.image
                        /\ mimg[j].state # "none"
                        /\ mimg[j].pool # mimg[mi.image].pool

\* C20: a mirror_image_disable that fails after it marked the record
\* disabling returns through the write that sets the record enabled again;
\* when that write succeeded the record is enabled on return; and a disable
\* that marked the record and returns 0 has removed it.
Thm_C20 ==
  [][ /\ mi.op = "disable" /\ mi.marked /\ mi.pc # "done"
           /\ mi'.pc = "done" /\ IsErr(mi'.r)
         => /\ mi.pc = "dis_rollback"
            /\ mi'.rolled => mimg'[mi.image].state = "enabled"
      /\ (ImageCallDone("disable") /\ mi.marked /\ IsErr(mi.r) /\ mi.rolled
           => mimg[mi.image].state = "enabled")'
      /\ (ImageCallDone("disable") /\ mi.marked /\ mi.r = OK
           => mi.teardown /\ mimg[mi.image].state = "none")' ]_vars

\* The disable request failed and the record has been written back as
\* enabled.
Wit_C20 ==
  /\ ImageCallDone("disable") /\ mi.marked /\ mi.teardown
  /\ mi.r \in TransportErrors /\ mi.rolled
  /\ mimg[mi.image].state = "enabled"

\* ------------------------------------------- promote, demote and resync
JournalDone(op) == jc.pc = "done" /\ jc.op = op

MirroringEnabled == mimg[JImage].state = "enabled"

\* C21: mirror_image_promote is rejected as invalid when mirroring is not
\* enabled for the image or the local replica already owns the tag, and,
\* without force, as busy when a remote cluster owns the tag; the journal
\* promotion is performed only when the tag has no owner, or a remote
\* owner and force is set. A call the store failed returns the store's
\* error instead.
Thm_C21 ==
  JournalDone("promote") =>
    /\ jc.r \notin TransportErrors =>
         /\ ~MirroringEnabled => jc.r = "EINVAL"
         /\ jc.owner = LOCAL_MIRROR_UUID => jc.r = "EINVAL"
         /\ jc.owner = "remote" /\ ~jc.force => jc.r = "EBUSY"
         /\ jc.owner = ORPHAN_MIRROR_UUID \/ (jc.owner = "remote" /\ jc.force)
              => jc.r = OK /\ jc.wrote
    /\ jc.r = "EBUSY" => jc.owner = "remote" /\ ~jc.force
    /\ jc.trace # <<>> =>
         /\ MirroringEnabled
         /\ \/ jc.owner = ORPHAN_MIRROR_UUID
            \/ jc.owner = "remote" /\ jc.force

Wit_C21 ==
  /\ JournalDone("promote")
  /\ jc.r = "EBUSY"
  /\ jc.owner = "remote"
  /\ MirroringEnabled

\* C22: every return of mirror_image_demote after the block of peer
\* requests has unblocked them, every return after the lock was acquired
\* has released the lock before the unblock, and no return leaves the
\* requests blocked or the lock held by the handle.
DemoteTraces ==
  {<<>>,
   <<"block", "unblock">>,
   <<"block", "lock", "release", "unblock">>,
   <<"block", "lock", "demote", "release", "unblock">>}

Orig_C22 ==
  JournalDone("demote") =>
    /\ jc.trace \in DemoteTraces
    /\ ~jc.blocked
    /\ "lock" \in {jc.trace[k] : k \in DOMAIN jc.trace} =>
         ~lk[JHandle].owner /\ locker # JHandle

\* C23: mirror_image_demote writes the demotion to the journal only if
\* mirroring is enabled, the local replica owned the tag when the call read
\* it before the lock request and still owns it once the lock is held, and
\* the handle owns the exclusive lock; a call that writes no demotion
\* returns an error and leaves the tag owner alone.
DemotionWritten ==
  /\ jc.op = "demote"
  /\ jr'.tag_owner # jr.tag_owner
  /\ jc' # jc

Thm_C23 ==
  /\ [](JournalDone("demote") => (jc.wrote <=> jc.r = OK))
  /\ [][jc.op = "demote" /\ jc' # jc /\ jc'.pc # "idle"
          => (jc'.wrote # jc.wrote <=> jr'.tag_owner # jr.tag_owner)]_vars
  /\ [][DemotionWritten =>
          /\ MirroringEnabled
          /\ jc.owner = LOCAL_MIRROR_UUID
          /\ jr.tag_owner = LOCAL_MIRROR_UUID
          /\ exclusive_lock /\ lk[JHandle].owner /\ locker = JHandle
          /\ jr'.tag_owner = ORPHAN_MIRROR_UUID]_vars

Wit_C23 ==
  /\ JournalDone("demote")
  /\ jc.r = "EINVAL"
  /\ jc.owner = LOCAL_MIRROR_UUID
  /\ "lock" \in {jc.trace[k] : k \in DOMAIN jc.trace}
  /\ jr.tag_owner # LOCAL_MIRROR_UUID

\* C24: mirror_image_resync is rejected, and the journal not flagged, when
\* mirroring is not enabled for the image or the local replica is the
\* primary; otherwise it sets the resync flag of the journal. A call the
\* store failed returns the store's error and flags nothing.
Thm_C24 ==
  /\ [](JournalDone("resync") =>
          /\ jc.wrote <=> jc.r = OK
          /\ jc.wrote => jr.resync
          /\ jc.r \notin TransportErrors =>
               /\ ~MirroringEnabled => jc.r = "EINVAL"
               /\ jc.owner = LOCAL_MIRROR_UUID => jc.r = "EINVAL"
               /\ MirroringEnabled
                    /\ jc.owner \in TagOwners \ {LOCAL_MIRROR_UUID}
                    => jc.r = OK)
  /\ [][jr'.resync # jr.resync =>
          /\ jc.op = "resync"
          /\ MirroringEnabled
          /\ jc.owner \in TagOwners \ {LOCAL_MIRROR_UUID}
          /\ jr'.resync]_vars

Wit_C24 ==
  /\ JournalDone("resync")
  /\ jc.r = OK
  /\ jr.resync
  /\ jc.owner = "remote"

\* -------------------------------------------------------- mirror_mode_set
DisableRefused ==
  \/ peers
  \/ ms.mode0 = "image" /\ ms.enabled0 # {}

\* C25: mirror_mode_set(disabled) is refused, and the mode of the pool left
\* as it was, when the pool has a registered peer, and when the pool is in
\* image mode and an image of it has its mirror state enabled: the first
\* with -EBUSY, the second with -EINVAL, unless the store failed the call
\* first.
Thm_C25 ==
  ms.pc # "idle" /\ ms.next = "disabled" /\ DisableRefused =>
    /\ mirror_mode = ms.mode0
    /\ ms.pc = "done" =>
         /\ IsErr(ms.r)
         /\ ms.r \notin TransportErrors =>
              ms.r = IF peers THEN "EBUSY" ELSE "EINVAL"

Wit_C25 ==
  /\ ms.pc = "done"
  /\ ms.next = "disabled"
  /\ ~peers
  /\ ms.mode0 = "image"
  /\ ms.enabled0 # {}
  /\ ms.r = "EINVAL"

AllJournaledEnabled ==
  \A i \in MImages : mimg[i].journaling => mimg[i].state = "enabled"

Thm_C27 ==
  /\ ms.pc = "done" /\ ms.next = "pool" /\ ms.r = OK =>
       mirror_mode = "pool" /\ AllJournaledEnabled
  /\ mirror_mode = "pool" => AllJournaledEnabled

Wit_C27 ==
  /\ ms.pc = "done"
  /\ ms.next = "pool"
  /\ ms.r = OK
  /\ ms.mode0 # "pool"
  /\ \A i \in MImages : mimg[i].journaling /\ i \notin ms.enabled0

\* -------------------------------------------------------------------- copy
\* C28: a copy() in which a read or a write failed returns the first error
\* met; it sends no read once it has noticed the error, which it does at
\* the next test of the loop, so that at most the read already waiting for
\* its slot follows the failure; it returns only when no chunk operation is
\* outstanding; and it reports (size, size) only on success.
Thm_C28 ==
  /\ [](cp.pc = "done" /\ cp.firstErr # OK => cp.r = cp.firstErr)
  /\ [](cp.late <= 1)
  /\ [](cp.pc = "done" =>
          cp.m_current = 0 /\ cp.reading = {} /\ cp.writing = {})
  /\ [](cp.pc = "done" /\ IsErr(cp.r) =>
          cp.progress # <<src.size, src.size>>)
  /\ [][cp.pc \in {"wait", "done"} => cp'.reading \subseteq cp.reading]_vars

Wit_C28 ==
  /\ cp.pc = "done"
  /\ cp.firstErr = "EIO"
  /\ cp.late = 1
  /\ cp.offset < src.size
  /\ faults <= MaxFaults - 2

\* ------------------------------------------------------ create, get_size
GetSizeOK(c) ==
  gs.pc = "done" /\ gs.op = "get_size" /\ gs.image = c /\ gs.r = OK

\* Sizes not below that of the parent's snapshot: what a caller could want
\* a clone overridden to. clone() has no argument and no option to take
\* such a size, so a clone made for a caller who wants one is any clone.
OverrideSizes == {s \in 0..MaxSize : s >= parent.size}

UnprotectedAtCheck ==
  clone_precheck([NoArgs EXCEPT !.snap = TRUE], parent,
                 [snap_r |-> OK, snap_protected |-> FALSE], "ENOENT")

LostRace(c) ==
  /\ CloneFailedAt(c, {5})
  /\ ~cl[c].snap_protected
  /\ cl[c].firstErr \notin TransportErrors

Orig_C30 == \A c \in Clients : LostRace(c) => cl[c].r # UnprotectedAtCheck

\* --------------------------------------------------- clone: compensation
\* The compensating actions owed to a clone whose forward operation `op`
\* failed: those of the operations that had succeeded, last first.
OwedCompensation(op) ==
  CASE op = "open" -> <<"remove">>
    [] op \in {"set_parent", "add_child"} -> <<"close", "remove">>
    [] op \in {"refresh", "metadata", "mirror"}
         -> <<"remove_child", "close", "remove">>
    [] OTHER -> <<>>

IsPrefix(s, t) == Len(s) <= Len(t) /\ SubSeq(t, 1, Len(s)) = s

\* C31: a failed clone runs, in this order, the removal from the child
\* index, the close of the child handle and the removal of the child image,
\* each exactly when the forward step it undoes had been reached: all three
\* after a failure past the registration, close and removal after a failed
\* set-parent or add-child, the removal alone after a failed open, none
\* after a failed create; a clone that succeeds runs none. (The close of
\* the child handle that ends a successful run is the return value of
\* clone, lines 1261-1262; it is no forward step and owes nothing.)
Thm_C31 ==
  \A c \in Clients :
    cl[c].op = "clone" =>
      /\ IsPrefix(cl[c].comp, OwedCompensation(cl[c].failedOp))
      /\ CloneDone(c) => cl[c].comp = OwedCompensation(cl[c].failedOp)
      /\ CloneFailedAt(c, {3}) => cl[c].failedOp = "none"
      /\ CloneOK(c) => cl[c].failedOp = "none"
      /\ cl[c].failedOp # "none" => IsErr(cl[c].r)

Wit_C31 ==
  \E c \in Clients :
    /\ CloneDone(c)
    /\ cl[c].failedOp = "add_child"
    /\ cl[c].comp = <<"close", "remove">>
    /\ NoResidue(c)

\* ------------------------------------------------- clone: the child index
Registered(c) == \E p \in Pools : c \in children[p]

AcquireReturns(h) ==
  lk[h].pc # "done" /\ lk'[h].pc = "done" /\ lk'[h].op = "acquire"

\* C33: lock_acquire returns 0 only when the handle's exclusive lock says
\* owner at the last check the call makes; an error of the lock request is
\* returned as it is, the handle not being owner; a request that completed
\* without error and without ownership gives -EROFS; a lock mode other than
\* exclusive gives -EOPNOTSUPP and a handle without the exclusive-lock
\* feature -EINVAL, both with no request sent.
Thm_C33 ==
  [][\A h \in Handles :
       /\ AcquireReturns(h) =>
            /\ lk'[h].r = OK => exclusive_lock /\ lk[h].owner
            /\ lk[h].pc = "acq_check" /\ IsErr(lk[h].r)
                 => lk'[h].r = lk[h].r /\ ~lk[h].owner
            /\ lk[h].pc = "acq_check" /\ lk[h].r = OK /\ ~lk[h].owner
                 => lk'[h].r = "EROFS"
            /\ lk'[h].mode # RBD_LOCK_MODE_EXCLUSIVE
                 => lk'[h].r = "EOPNOTSUPP" /\ lk[h].pc = "idle"
            /\ lk'[h].mode = RBD_LOCK_MODE_EXCLUSIVE /\ ~exclusive_lock
                 => lk'[h].r = "EINVAL" /\ lk[h].pc = "idle"
       /\ lk[h].pc = "idle" /\ lk'[h].pc = "acq_wait"
            => /\ lk'[h].mode = RBD_LOCK_MODE_EXCLUSIVE
               /\ exclusive_lock /\ ~lk[h].owner]_vars

\* C33 witness: the request of a handle completed without error while the
\* other handle kept the lock, and lock_acquire returned -EROFS.
Wit_C33 ==
  \E h \in Handles :
    /\ lk[h].op = "acquire" /\ lk[h].pc = "done"
    /\ lk[h].r = "EROFS"
    /\ ~lk[h].owner
    /\ locker \notin {"none", h}

\* ------------------------------------------- breaking a lock: the blacklist
\* A step of handle h, in lock_break or break_lock, with which the break is
\* issued to the store.
BreakIssued(h) ==
  /\ lk[h].pc \in {"brk_break", "bl_break"}
  /\ lk'[h].pc = "done"

\* C34: with blacklisting on break configured, the break is issued only
\* after the locker's address was added to the blacklist, and it is the
\* address of the locker then broken; break_lock returns an error without
\* issuing a break when the blacklist add fails or the client is not among
\* the lockers, and sends the update notification only after a break that
\* succeeded.
Thm_C34 ==
  [][\A h \in Handles :
       /\ BreakIssued(h) /\ blacklist_on_break_lock
            => /\ lk[h].blacklisted
               /\ lk[h].address \in blacklist
               /\ locker' # locker => locker = lk[h].address
       /\ lk[h].pc = "bl_blacklist" /\ lk'[h] # lk[h]
            => IF lk'[h].blacklisted
               THEN lk[h].address \in blacklist'
               ELSE /\ lk'[h].pc = "done" /\ IsErr(lk'[h].r)
                    /\ blacklist' = blacklist
       /\ lk[h].pc = "bl_info" /\ lk'[h] # lk[h] /\ locker # lk[h].lock_owner
            => lk'[h].pc = "done" /\ IsErr(lk'[h].r)
       /\ lk[h].op \in {"break", "break_lock"} /\ lk'[h] # lk[h]
            /\ locker' # locker
            => BreakIssued(h)
       /\ lk'[h].notified
            => lk'[h].broke /\ lk'[h].r = OK /\ lk'[h].op = "break_lock"]_vars

\* C34 witness: break_lock, with blacklisting configured, has blacklisted
\* the locker, broken its lock and sent the notification.
Wit_C34 ==
  /\ blacklist_on_break_lock
  /\ lk["h1"].op = "break_lock" /\ lk["h1"].pc = "done"
  /\ lk["h1"].notified /\ lk["h1"].blacklisted
  /\ "h2" \in blacklist
  /\ locker = "none"

\* ---------------------------------------------------------------- C35
\* C35: list_children_info returns the registered children of every pool
\* that is its own base tier: a step of the scan passes over a cache tier
\* and over a pool that has disappeared without an error and without
\* reading it, records for a base-tier pool exactly the ids registered in
\* it, and on any other error ends the search with that error; an image
\* without layering yields nothing; and when the scan is over every pool
\* that is its own base tier has been read.
ScanStep == sr.pc = "lci_scan" /\ sr.pools # <<>> /\ sr' # sr

Thm_C35 ==
  [][/\ \A p \in DOMAIN sr'.image_info : pool_tier[p] # "cache"
     /\ sr.pc = "flatten" /\ sr' # sr
          /\ RBD_FEATURE_LAYERING \notin parent.features
          => \/ sr'.pc = "done" /\ IsErr(sr'.r)
             \/ sr'.pc = "is_protected" /\ sr'.image_info = <<>>
     /\ ScanStep
          => LET p == Head(sr.pools)
             IN IF sr'.pc = "done"
                THEN IsErr(sr'.r) /\ pool_tier[p] # "gone"
                ELSE /\ sr'.pc = "lci_scan"
                     /\ sr'.pools = Tail(sr.pools)
                     /\ IF pool_tier[p] = "base"
                        THEN /\ DOMAIN sr'.image_info
                                  = DOMAIN sr.image_info \cup {p}
                             /\ sr'.image_info[p] = children[p]
                             /\ \A q \in DOMAIN sr.image_info \ {p} :
                                  sr'.image_info[q] = sr.image_info[q]
                        ELSE sr'.image_info = sr.image_info
     /\ sr.pc = "lci_scan" /\ sr'.pc \in {"fl_pool", "is_protected"}
          => \A p \in Pools :
               pool_tier[p] = "base" => p \in DOMAIN sr.image_info
    ]_vars

\* The scan is over: a cache tier was passed over and the children of
\* another pool are listed.
Wit_C35 ==
  /\ sr.pc = "fl_pool"
  /\ \E p \in Pools : pool_tier[p] = "cache"
  /\ \E q \in DOMAIN sr.image_info : sr.image_info[q] # {}

\* ---------------------------------------------------------------- C36
FlattenFirst == RBD_SNAP_REMOVE_FLATTEN \in sr.flags

\* Every clone listed in a pool that is its own base tier has been
\* flattened and none is registered there any more.
AllFlattened ==
  \A p \in Pools :
    pool_tier[p] = "base"
      => /\ children[p] = {}
         /\ p \in DOMAIN sr.image_info
              => \A c \in sr.image_info[p] :
                   c \in sr.flattened /\ ~img[c].parent

\* C36: snap_remove with the flatten-first flag has flattened every clone
\* registered under the snapshot before it reads the protection state and
\* removes the snapshot; a child that cannot be opened or flattened ends
\* snap_remove with an error and the snapshot present; and the step after
\* a child's flatten takes a child without deep-flatten that has snapshots
\* out of the child index, or ends snap_remove with the store's error.
Thm_C36 ==
  [][/\ FlattenFirst /\ sr.pc # sr'.pc /\ sr'.pc = "is_protected"
          => AllFlattened'
     /\ FlattenFirst /\ snapExists /\ ~snapExists' => AllFlattened
     /\ sr.pc = "fl_open" /\ sr.ids # <<>> /\ sr' # sr
          => \/ sr'.pc = "fl_flatten"
             \/ /\ sr'.pc = "done" /\ IsErr(sr'.r) /\ snapExists'
                /\ children' = children
     /\ sr.pc = "fl_flatten" /\ sr' # sr
          => \/ /\ sr'.pc = "fl_remove_child"
                /\ ~img'[Head(sr.ids)].parent
             \/ /\ sr'.pc = "done" /\ IsErr(sr'.r) /\ snapExists'
                /\ children' = children /\ img' = img
     /\ sr.pc = "fl_remove_child" /\ sr' # sr
          => LET c == Head(sr.ids)
             IN IF ~img[c].deep_flatten /\ img[c].snaps
                THEN \/ c \notin children'[img[c].pool]
                     \/ sr'.pc = "done" /\ IsErr(sr'.r) /\ snapExists'
                ELSE children' = children /\ c \notin children[img[c].pool]
    ]_vars

\* snap_remove has flattened both clones, one of which has snapshots and
\* lacks deep-flatten, and removed the snapshot.
Wit_C36 ==
  /\ sr.pc = "done" /\ sr.r = OK /\ FlattenFirst
  /\ ~snapExists
  /\ sr.flattened = Clients
  /\ \E c \in Clients : img[c].snaps /\ ~img[c].deep_flatten

\* ---------------------------------------------------------------- C37
\* C37: when mirror_mode_set returns an error, the stored mirror mode of
\* the pool and the mirror state of every image are those of the time of
\* the call.
Orig_C37 ==
  ms.pc = "done" /\ IsErr(ms.r)
    => /\ mirror_mode = ms.mode0
       /\ \A i \in MImages : mimg[i].state = ms.state0[i]

\* ---------------------------------------------------------------- C38
\* Chunk operations in flight.
InFlight == cp.reading \cup cp.writing

\* The ranges are stripe-period-sized, start at 0 and follow one another.
Consecutive(chunks) ==
  \A k \in 1..Len(chunks) :
    /\ chunks[k][1] = (k - 1) * StripePeriod
    /\ chunks[k][2] > 0
    /\ chunks[k][1] + chunks[k][2] <= src.size
    /\ chunks[k][2] # StripePeriod => chunks[k][1] + chunks[k][2] = src.size

\* The end of the range the chunks cover.
CoveredTo(chunks) ==
  IF chunks = <<>> THEN 0
  ELSE chunks[Len(chunks)][1] + chunks[Len(chunks)][2]

\* The throttle of copy(): no more than the configured number of chunk
\* operations in flight, every slot given back once.
Throttled ==
  /\ Cardinality(InFlight) <= concurrent_management_ops
  /\ cp.m_current = Cardinality(InFlight)
  /\ ~cp.twice
  /\ cp.ended \cap InFlight = {}
  /\ {cp.chunks[k][1] : k \in 1..Len(cp.chunks)} = cp.ended \cup InFlight

\* C38, as stated: the throttle bound holds, every chunk gives its slot
\* back once, copy() ends, and the chunks a copy() has sent when it ends
\* cover [0, src_size).
Orig_C38 ==
  /\ [](Throttled /\ Consecutive(cp.chunks))
  /\ [](cp.pc = "done" /\ cp.chunks # <<>>
          => CoveredTo(cp.chunks) = src.size)
  /\ <>(cp.pc = "done")

\* C38: no more than the configured number of chunk operations is in
\* flight; every chunk gives its slot back exactly once, so that none is
\* outstanding when copy() ends, and copy() ends; the chunks sent are
\* consecutive stripe-period-sized ranges from offset 0, the one that ends
\* at src_size possibly shorter; they cover [0, src_size) when copy()
\* returns success, and an initial part of it when it returns an error.
Thm_C38 ==
  /\ [](Throttled /\ Consecutive(cp.chunks))
  /\ [](cp.pc = "done" => InFlight = {} /\ cp.m_current = 0)
  /\ [](cp.pc = "done" /\ cp.r = OK => CoveredTo(cp.chunks) = src.size)
  /\ [](cp.pc = "done" /\ CoveredTo(cp.chunks) < src.size => IsErr(cp.r))
  /\ <>(cp.pc = "done")

\* A copy() of the largest source has ended with success, every chunk sent
\* and two of them written.
Wit_C38 ==
  /\ cp.pc = "done" /\ cp.r = OK
  /\ src.size = MaxSize
  /\ Len(cp.chunks) = Cardinality(ChunkOffsets(MaxSize))
  /\ Cardinality(cp.issued) >= 2

\* ---------------------------------------------------------------- C40
\* C40: with the selected snapshot present clip_io returns 0 and leaves a
\* length of 0 alone, returns -EINVAL for a request of positive length
\* that starts at or past the end of the image, and else returns 0 with
\* the request within the image, its length cut to image size - off when
\* it went past the end, whatever off + len is; it returns -ENOENT when
\* the snapshot is gone.
Orig_C40 ==
  io.pc = "done"
    => IF ~io.snap_exists THEN io.r = "ENOENT"
       ELSE IF io.len0 = 0 THEN io.r = OK /\ io.len = 0
       ELSE IF io.off >= io.image_size THEN io.r = "EINVAL"
       ELSE /\ io.r = OK
            /\ io.off + io.len <= io.image_size
            /\ io.len = IF io.off + io.len0 > io.image_size
                        THEN io.image_size - io.off ELSE io.len0

\* ---------------------------------------------------------------- C39
\* The image has a snapshot, another watcher or a group, or its exclusive
\* lock is held elsewhere and the caller did not ask for force.
RemoveRefused(c) ==
  \/ img[c].snaps
  \/ watchers[c] > 1
  \/ img[c].group
  \/ ~cl[c].force /\ img[c].excl /\ img[c].locked

\* C39: remove() of an image with a snapshot, with more than one watcher,
\* in a group or, without force, with its exclusive lock held elsewhere
\* returns an error from its checks with the data objects, the child
\* index, the mirror record, the header, the id object and the directory
\* entry as they were; data objects are trimmed only after the checks have
\* passed, and the header is removed only once the image is out of the
\* child index.
Thm_C39 ==
  [][\A c \in Clients :
       /\ cl[c].pc = "rm_checks" /\ cl'[c] # cl[c] /\ RemoveRefused(c)
            => /\ cl'[c].pc = "done" /\ IsErr(cl'[c].r)
               /\ img'[c] = cl[c].img0
               /\ (c \in children'[img[c].pool]) = cl[c].registered0
       /\ cl[c].op = "remove" /\ cl[c].pc \in {"rm_open", "rm_checks"}
            => /\ img[c] = cl[c].img0 /\ img'[c] = img[c]
               /\ (c \in children'[img[c].pool]) = cl[c].registered0
       /\ img[c].data /\ ~img'[c].data
            => cl[c].pc = "rm_trim" /\ ~cl[c].img0.snaps
                 /\ ~cl[c].img0.group
       /\ img[c].hdr /\ ~img'[c].hdr => c \notin children[img[c].pool]
    ]_vars

\* remove() has refused an image with snapshots, data objects, a mirror
\* record and a registration as a clone, and left all of them.
Wit_C39 ==
  /\ cl["c1"].pc = "done" /\ cl["c1"].op = "remove"
  /\ cl["c1"].r = "ENOTEMPTY"
  /\ img["c1"].snaps /\ img["c1"].data /\ img["c1"].mirror
  /\ img["c1"].hdr /\ "c1" \in children["p1"]

====
